---- MODULE Spec2Model ----
(***************************************************************************)
(* Lumivahti: the snow-data resolution pipeline of                         *)
(* LumivahtiPWA/server/routes.ts as a state machine.                       *)
(*                                                                         *)
(* Numbers.  Latitudes and longitudes are integers in 1/10000 degree,      *)
(* distances are integers in metres, measurement values and temperatures   *)
(* are integers in 1/10 of their unit.  The JavaScript value NaN is the    *)
(* integer NaN below; every comparison goes through Lt/Gt/Le/Ge, which     *)
(* are false when an operand is NaN, as in JavaScript.                     *)
(*                                                                         *)
(* Values that may be null or undefined are records with a field `kind`.   *)
(***************************************************************************)
EXTENDS Integers, Sequences, FiniteSets, TLC

\* ---------------------------------------------------------------- bounds
\* Number of concurrent callers of the geo resolver in SpecGeo.
NumReq == 2
\* The counter of external geocoding lookups per postal code saturates here.
MaxGeoCalls == 2
\* The longest observation document (in series) an upstream answer holds.
MaxSeries == 2
\* The deepest snow (cm) the calculator is applied to.
MaxDepthCm == 499

Reqs == 1 .. NumReq

\* ------------------------------------------------------- JavaScript values
NaN == -999999999

IsNaN(x) == x = NaN
Lt(a, b) == ~IsNaN(a) /\ ~IsNaN(b) /\ a < b
Gt(a, b) == ~IsNaN(a) /\ ~IsNaN(b) /\ a > b
Le(a, b) == ~IsNaN(a) /\ ~IsNaN(b) /\ a <= b
Ge(a, b) == ~IsNaN(a) /\ ~IsNaN(b) /\ a >= b

Null == [kind |-> "null"]
Undefined == [kind |-> "undefined"]
PostalCodeInfo(lat, lon, city) == [kind |-> "info", lat |-> lat, lon |-> lon, city |-> city]

\* A completed call of an async function: it returned a value or it threw.
Return(v) == [kind |-> "return", value |-> v]
Throw == [kind |-> "throw"]

\* ------------------------------------------------------------ geo resolver
\* The entries of the static table that the model uses (the table has about
\* 150, all of the same shape): one per latitude band of the seasonal
\* estimate, the Kilpisjarvi codes and an Inari-prefix code outside the
\* Inari box.
postalCodeMap ==
    [p \in {"00100", "70100", "90100", "96100", "99130", "99980"} |->
        CASE p = "00100" -> PostalCodeInfo(601699, 249384, "Helsinki")
          [] p = "70100" -> PostalCodeInfo(628933, 276783, "Kuopio")
          [] p = "90100" -> PostalCodeInfo(650121, 254651, "Oulu")
          [] p = "96100" -> PostalCodeInfo(665028, 257285, "Rovaniemi")
          [] p = "99130" -> PostalCodeInfo(690450, 207890, "Kilpisjarvi")
          [] p = "99980" -> PostalCodeInfo(700922, 279072, "Utsjoki")]

StaticCodes == DOMAIN postalCodeMap
\* Postal codes that are not in the table: 33720 is the code of the
\* comment at line 525, 99830 starts with 998 (the Inari/Ivalo prefix).
DynamicCodes == {"33720", "99830"}
PostalCodes == StaticCodes \cup DynamicCodes

\* What the geocoding service may answer.  A body is the parsed JSON: an
\* array (a sequence) of candidates, or null.  A candidate carries lat and
\* lon as parseFloat reads them (NaN when they are no number) and
\* display_name: missing, a value without a split method, or a string,
\* given as its comma-separated parts.
Absent == [kind |-> "absent"]
NonString == [kind |-> "nonstring"]
String(parts) == [kind |-> "string", parts |-> parts]
Candidate(lat, lon, display) == [lat |-> lat, lon |-> lon, display_name |-> display]

GeoCandidates ==
    { Candidate(614978, 237610, String(<<"33720", "Tampere", "Finland">>)),
      Candidate(NaN, NaN, Absent),
      Candidate(614978, 237610, NonString),
      Candidate(636146, 276783, String(<<"Iisalmi", "Finland">>)) }

\* fetch rejects; a non-OK status; response.json() rejects; a JSON body.
GeoResponses ==
    { [kind |-> "throw"], [kind |-> "status"], [kind |-> "nojson"],
      [kind |-> "body", data |-> <<>>], [kind |-> "body", data |-> <<Null>>] }
    \cup { [kind |-> "body", data |-> <<c>>] : c \in GeoCandidates }

\* Lines 526-533: the city is the second comma-separated part.
CityOf(display) ==
    IF display.kind = "string" /\ Len(display.parts) >= 2
    THEN display.parts[2]
    ELSE "Tuntematon"

\* Lines 499-543, the try block of geocodePostalCode once fetch has settled:
\* what it returns (or that it threw) and what it assigned to
\* geocodeCache[postalCode] (Undefined: nothing).
GeocodeTry(resp) ==
    IF resp.kind \in {"throw", "nojson"} THEN [result |-> Throw, write |-> Undefined]
    ELSE IF resp.kind = "status" THEN [result |-> Return(Null), write |-> Null]
    ELSE IF Len(resp.data) = 0 THEN [result |-> Return(Null), write |-> Null]
    ELSE IF resp.data[1] = Null \/ resp.data[1].display_name = NonString
         THEN [result |-> Throw, write |-> Undefined]
    ELSE LET c == resp.data[1]
             info == PostalCodeInfo(c.lat, c.lon, CityOf(c.display_name))
         IN  [result |-> Return(info), write |-> info]

\* Fault: a catch block that returns null without caching the miss.
GeocodeCatchNoWrite(done) ==
    IF done.result.kind = "throw"
    THEN [result |-> Return(Null), write |-> Undefined]
    ELSE done

\* Lines 544-548: the catch block caches the miss and returns null.
GeocodeCatch(done) ==
    IF done.result.kind = "throw"
    THEN [result |-> Return(Null), write |-> Null]
    ELSE done

geocodePostalCodeFetched(resp) == GeocodeCatch(GeocodeTry(resp))

\* Lines 494-497: the cache check of geocodePostalCode.
geocodePostalCode(p, cache) ==
    IF cache[p] # Undefined
    THEN [kind |-> "cached", value |-> cache[p]]
    ELSE [kind |-> "fetch"]

\* Fault: no look at the static table.
getPostalCodeInfoGeocodeOnly(p, cache) == geocodePostalCode(p, cache)

\* Lines 709-715: the static table first, geocoding otherwise.
getPostalCodeInfo(p, cache) ==
    IF p \in DOMAIN postalCodeMap
    THEN [kind |-> "static", value |-> postalCodeMap[p]]
    ELSE geocodePostalCode(p, cache)

\* ------------------------------------------------------- distance utility
NullStr == "<null>"
NullNum == -888888888

\* Math.round: to the nearest integer, halves upwards.  x is in 1/unit.
MathRound(x, unit) == IF IsNaN(x) THEN NaN ELSE (2 * x + unit) \div (2 * unit)

Abs(x) == IF x < 0 THEN -x ELSE x

\* Line 469.
KUOPIO_CENTER == [lat |-> 628933, lon |-> 276783]

\* calculateDistance (lines 472-482) in metres, for the pairs of points the
\* model uses: <<lat1, lon1, lat2, lon2, metres>>, computed with the
\* formula of the source.
DistanceTable ==
    { <<601699, 249384, 628933, 276783, 335779>>, <<601699, 249384, 690458, 207877, 1006038>>,
      <<601699, 249384, 690422, 208508, 1005078>>, <<601699, 249384, 686073, 274053, 945469>>,
      <<601699, 249384, 684151, 274132, 924376>>, <<601699, 249384, 684778, 283000, 937540>>,
      <<628933, 276783, 690458, 207877, 750852>>, <<628933, 276783, 690422, 208508, 749335>>,
      <<628933, 276783, 686073, 274053, 635489>>, <<628933, 276783, 684151, 274132, 614115>>,
      <<628933, 276783, 684778, 283000, 621612>>,
      <<650121, 254651, 628933, 276783, 259164>>, <<650121, 254651, 690458, 207877, 491992>>,
      <<650121, 254651, 690422, 208508, 490519>>, <<650121, 254651, 686073, 274053, 408644>>,
      <<650121, 254651, 684151, 274132, 387917>>, <<650121, 254651, 684778, 283000, 404864>>,
      <<665028, 257285, 628933, 276783, 411865>>, <<665028, 257285, 690458, 207877, 350694>>,
      <<665028, 257285, 690422, 208508, 348820>>, <<665028, 257285, 686073, 274053, 244575>>,
      <<665028, 257285, 684151, 274132, 224417>>, <<665028, 257285, 684778, 283000, 245333>>,
      <<690450, 207890, 628933, 276783, 750749>>, <<690450, 207890, 690458, 207877, 103>>,
      <<690450, 207890, 690422, 208508, 2477>>, <<690450, 207890, 686073, 274053, 270014>>,
      <<690450, 207890, 684151, 274132, 276078>>, <<690450, 207890, 684778, 283000, 308842>>,
      <<700922, 279072, 628933, 276783, 800544>>, <<700922, 279072, 690458, 207877, 299621>>,
      <<700922, 279072, 690422, 208508, 297548>>, <<700922, 279072, 686073, 274053, 166281>>,
      <<700922, 279072, 684151, 274132, 187496>>, <<700922, 279072, 684778, 283000, 180176>>,
      <<614978, 237610, 628933, 276783, 255586>>, <<614978, 237610, 690458, 207877, 850369>>,
      <<614978, 237610, 690422, 208508, 849514>>, <<614978, 237610, 686073, 274053, 808456>>,
      <<614978, 237610, 684151, 274132, 787804>>, <<614978, 237610, 684778, 283000, 804413>>,
      <<636146, 276783, 690458, 207877, 676807>>, <<636146, 276783, 690422, 208508, 675203>>,
      <<636146, 276783, 686073, 274053, 555298>>, <<636146, 276783, 684151, 274132, 533924>>,
      <<636146, 276783, 684778, 283000, 541484>> }

\* Two points on one meridian: the formula reduces to R * dLat
\* (6371 km * pi / 180 = 111.195 km per degree).
calculateDistance(lat1, lon1, lat2, lon2) ==
    IF IsNaN(lat1) \/ IsNaN(lon1) \/ IsNaN(lat2) \/ IsNaN(lon2) THEN NaN
    ELSE IF lon1 = lon2 THEN (Abs(lat2 - lat1) * 111195) \div 10000
    ELSE (CHOOSE e \in DistanceTable :
              e[1] = lat1 /\ e[2] = lon1 /\ e[3] = lat2 /\ e[4] = lon2)[5]

\* Math.round of a distance in km.
RoundKm(metres) == MathRound(metres, 1000)

\* ------------------------------------------------------- observation parser
\* An observation document is a sequence of point time series; a series has
\* a name (NullStr: no gml:name; "" when the name is blank, line 901 trims
\* it), a position (Null: no gml:pos) and its time-value pairs in document
\* order.  A value is in 1/10 cm, NaN when it is no number; a time is an
\* integer, NaN when it is no date.
Series(name, pos, tvps) == [name |-> name, pos |-> pos, tvps |-> tvps]
Pos(lat, lon) == [kind |-> "pos", lat |-> lat, lon |-> lon]
TVP(time, value) == [time |-> time, value |-> value]

SnowDepthResult(depth, name, distance, updatedAt) ==
    [kind |-> "result", depth |-> depth, stationName |-> name,
     stationDistance |-> distance, updatedAt |-> updatedAt]

\* Fault: no upper end of the range.
ValidValueNoUpperEnd(v) == ~IsNaN(v) /\ v >= 0

\* Lines 862 and 926: the value filter.
ValidValue(v) == ~IsNaN(v) /\ v >= 0 /\ v < 5000

\* Fault: of measurements with the same time the later one is kept.
RECURSIVE LatestFromLastWins(_, _, _)
LatestFromLastWins(tvps, latestTime, latestValue) ==
    IF tvps = <<>> THEN [time |-> latestTime, value |-> latestValue]
    ELSE LET m == Head(tvps)
             take == ValidValue(m.value)
                     /\ (latestTime = NullNum \/ Ge(m.time, latestTime))
         IN  IF take THEN LatestFromLastWins(Tail(tvps), m.time, m.value)
             ELSE LatestFromLastWins(Tail(tvps), latestTime, latestValue)

\* Lines 854-869 and 918-933: the latest valid measurement, as
\* [time, value], value = NullNum when there is none.
RECURSIVE LatestFrom(_, _, _)
LatestFrom(tvps, latestTime, latestValue) ==
    IF tvps = <<>> THEN [time |-> latestTime, value |-> latestValue]
    ELSE LET m == Head(tvps)
             take == ValidValue(m.value)
                     /\ (latestTime = NullNum \/ Gt(m.time, latestTime))
         IN  IF take THEN LatestFrom(Tail(tvps), m.time, m.value)
             ELSE LatestFrom(Tail(tvps), latestTime, latestValue)

Latest(tvps) == LatestFrom(tvps, NullNum, NullNum)

\* Fault: November is no winter month.
getMockSnowDepthResultLateStart(lat, month) ==
    LET isWinter == month >= 11 \/ month <= 2
        isLateWinter == month = 2 \/ month = 3
        baseDepth ==
            IF Gt(lat, 680000) THEN (IF isWinter THEN 25 ELSE IF isLateWinter THEN 15 ELSE 5)
            ELSE IF Gt(lat, 660000) THEN (IF isWinter THEN 15 ELSE IF isLateWinter THEN 8 ELSE 2)
            ELSE IF Gt(lat, 640000) THEN (IF isWinter THEN 10 ELSE IF isLateWinter THEN 5 ELSE 0)
            ELSE IF Gt(lat, 620000) THEN (IF isWinter THEN 8 ELSE IF isLateWinter THEN 3 ELSE 0)
            ELSE (IF isWinter THEN 3 ELSE 0)
    IN  [kind |-> "result", depth |-> baseDepth, stationName |-> NullStr,
         stationDistance |-> NullNum, updatedAt |-> NullNum]

\* Lines 961-991.  month is Date.getMonth(), 0..11.
getMockSnowDepthResult(lat, month) ==
    LET isWinter == month >= 10 \/ month <= 2
        isLateWinter == month = 2 \/ month = 3
        baseDepth ==
            IF Gt(lat, 680000) THEN (IF isWinter THEN 25 ELSE IF isLateWinter THEN 15 ELSE 5)
            ELSE IF Gt(lat, 660000) THEN (IF isWinter THEN 15 ELSE IF isLateWinter THEN 8 ELSE 2)
            ELSE IF Gt(lat, 640000) THEN (IF isWinter THEN 10 ELSE IF isLateWinter THEN 5 ELSE 0)
            ELSE IF Gt(lat, 620000) THEN (IF isWinter THEN 8 ELSE IF isLateWinter THEN 3 ELSE 0)
            ELSE (IF isWinter THEN 3 ELSE 0)
    IN  SnowDepthResult(baseDepth, NullStr, NullNum, NullNum)

\* Fault: the first series within maxDistance that has a valid measurement.
RECURSIVE BestSeriesFirstFound(_, _, _, _, _, _)
BestSeriesFirstFound(doc, userLat, userLon, maxDistance, best, bestDistance) ==
    IF doc = <<>> THEN best
    ELSE LET s == Head(doc)
             rest == Tail(doc)
             stationName == IF s.name = NullStr THEN "Tuntematon asema" ELSE s.name
             distance == calculateDistance(userLat, userLon, s.pos.lat, s.pos.lon)
             latest == Latest(s.tvps)
         IN  IF s.pos = Null \/ Gt(distance, maxDistance * 1000)
                   \/ latest.value = NullNum \/ IsNaN(distance)
                 THEN BestSeriesFirstFound(rest, userLat, userLon, maxDistance,
                                           best, bestDistance)
             ELSE SnowDepthResult(MathRound(latest.value, 10), stationName,
                                  RoundKm(distance), latest.time)

\* Lines 896-944: the closest series within maxDistance (km) that has a
\* valid measurement; best is Null until one is found.
RECURSIVE BestSeries(_, _, _, _, _, _)
BestSeries(doc, userLat, userLon, maxDistance, best, bestDistance) ==
    IF doc = <<>> THEN best
    ELSE LET s == Head(doc)
             rest == Tail(doc)
             stationName == IF s.name = NullStr THEN "Tuntematon asema" ELSE s.name
             distance == calculateDistance(userLat, userLon, s.pos.lat, s.pos.lon)
             latest == Latest(s.tvps)
             closer == IF best = Null THEN ~IsNaN(distance) ELSE Lt(distance, bestDistance)
         IN  IF s.pos = Null
                 THEN BestSeries(rest, userLat, userLon, maxDistance, best, bestDistance)
             ELSE IF Gt(distance, maxDistance * 1000)
                 THEN BestSeries(rest, userLat, userLon, maxDistance, best, bestDistance)
             ELSE IF latest.value # NullNum /\ closer
                 THEN BestSeries(rest, userLat, userLon, maxDistance,
                                 SnowDepthResult(MathRound(latest.value, 10), stationName,
                                                 RoundKm(distance), latest.time),
                                 distance)
             ELSE BestSeries(rest, userLat, userLon, maxDistance, best, bestDistance)

\* Lines 888-953.
parseTimeValuePairSnowResponse(doc, userLat, userLon, maxDistance, month) ==
    LET bestResult == BestSeries(doc, userLat, userLon, maxDistance, Null, NaN) IN
    IF bestResult # Null THEN bestResult
    ELSE getMockSnowDepthResult(userLat, month)

\* Fault: no catch block, the error leaves the function.
NoCatch(done) == done

\* A try block's completion with the catch of lines 821-824, 882-885:
\* the error is logged and null returned.
CatchReturnNull(done) == IF done.kind = "throw" THEN Return(Null) ELSE done

\* !result.stationName (lines 786, 816): null and "" are falsy.
Falsy(name) == name = NullStr \/ name = ""

\* Lines 796-825 once fetch has settled.  An upstream response is
\* "throw" (fetch rejects), "status" (non-OK), "textfail" (response.text()
\* rejects) or "body" with a document.
searchStationsInRadiusTry(resp, lat, lon, radiusKm, month) ==
    IF resp.kind \in {"throw", "textfail"} THEN Throw
    ELSE IF resp.kind = "status" THEN Return(Null)
    ELSE LET result == parseTimeValuePairSnowResponse(resp.doc, lat, lon, radiusKm, month) IN
         IF Falsy(result.stationName) THEN Return(Null) ELSE Return(result)

searchStationsInRadius(resp, lat, lon, radiusKm, month) ==
    CatchReturnNull(searchStationsInRadiusTry(resp, lat, lon, radiusKm, month))

RECURSIVE AllTVPs(_)
AllTVPs(doc) == IF doc = <<>> THEN <<>> ELSE Head(doc).tvps \o AllTVPs(Tail(doc))

\* Lines 827-886 once fetch has settled; the station's coordinates are
\* given (every caller passes them), so the document's gml:pos is not read.
fetchSnowFromStationTry(resp, station, userLat, userLon) ==
    IF resp.kind \in {"throw", "textfail"} THEN Throw
    ELSE IF resp.kind = "status" THEN Return(Null)
    ELSE LET latest == Latest(AllTVPs(resp.doc))
             distance == calculateDistance(userLat, userLon, station.lat, station.lon)
         IN  IF latest.value # NullNum
             THEN Return(SnowDepthResult(MathRound(latest.value, 10), station.name,
                                         RoundKm(distance), latest.time))
             ELSE Return(Null)

fetchSnowFromStation(resp, station, userLat, userLon) ==
    CatchReturnNull(fetchSnowFromStationTry(resp, station, userLat, userLon))

\* ---------------------------------------------------------- station locator
Station(fmisid, name, lat, lon) ==
    [kind |-> "station", fmisid |-> fmisid, name |-> name, lat |-> lat, lon |-> lon]
Bbox(radiusKm) == [kind |-> "bbox", radiusKm |-> radiusKm]

\* Lines 740-743.
KILPISJARVI_STATIONS ==
    << Station("102016", "Kilpisjarvi kylakeskus", 690458, 207877),
       Station("102017", "Kilpisjarvi Saana", 690422, 208508) >>

\* Lines 746-750.
INARI_IVALO_STATIONS ==
    << Station("101784", "Ivalo lentoasema", 686073, 274053),
       Station("101885", "Inari Saariselka matkailukeskus", 684151, 274132),
       Station("102003", "Inari Raja-Jooseppi", 684778, 283000) >>

\* Fault: the wide search first.
searchRadiiWidestFirst == << [kind |-> "bbox", radiusKm |-> 50], [kind |-> "bbox", radiusKm |-> 25] >>

\* Line 782.
searchRadii == << Bbox(25), Bbox(50) >>

\* The forecast engine calls the locator without a postal code (line 957).
NoPostalCode == "undefined"

\* String.startsWith on the postal codes of the model.
StartsWith(p, prefix) == <<p, prefix>> \in { <<"99830", "998">>, <<"99980", "998">> }

\* Line 759.
KilpisjarviApplies(lat, lon, p) ==
    \/ p \in {"99130", "99100", "99490"}
    \/ (Gt(lat, 690000) /\ Gt(lon, 205000) /\ Lt(lon, 210000))

\* Lines 770-771.
InariIvaloApplies(lat, lon, p) ==
    \/ StartsWith(p, "998")
    \/ StartsWith(p, "997")
    \/ (Gt(lat, 680000) /\ Lt(lat, 695000) /\ Gt(lon, 270000) /\ Lt(lon, 290000))

\* Lines 758-789: the upstream calls of one run of
\* getSnowDepthWithStationInfo, in the order the loops issue them while
\* none returns a result.
LocatorPlan(lat, lon, p) ==
    (IF KilpisjarviApplies(lat, lon, p) THEN KILPISJARVI_STATIONS ELSE <<>>)
    \o (IF InariIvaloApplies(lat, lon, p) THEN INARI_IVALO_STATIONS ELSE <<>>)
    \o searchRadii

\* The label of an upstream call in the calls log.
CallLabel(step) ==
    IF step.kind = "station" THEN step.fmisid
    ELSE IF step.radiusKm = 25 THEN "bbox25" ELSE "bbox50"

\* One step of the locator, once its request has settled (lines 761-762,
\* 773-774, 785-786): the result it hands to the loop, Null when the loop
\* goes on.
LocatorStep(step, resp, lat, lon, month) ==
    IF step.kind = "station"
    THEN fetchSnowFromStation(resp, step, lat, lon)
    ELSE LET done == searchStationsInRadius(resp, lat, lon, step.radiusKm, month) IN
         IF done.kind = "return" /\ done.value # Null /\ Falsy(done.value.stationName)
         THEN Return(Null)
         ELSE done

\* What the observation service may answer to a query around (lat, lon):
\* series on the meridian of the query point, 11 km, 22 km and 33 km away.
\* Measurements of 32.0 cm and 36.0 cm give loads of 80 and 90 kg/m2.
ObsBase(lat) == IF IsNaN(lat) THEN 600000 ELSE lat
ObsLon(lon) == IF IsNaN(lon) THEN 250000 ELSE lon

ObsSeries(lat, lon) ==
    { Series("Asema A", Null, <<TVP(1, 320)>>),
      Series("Asema A", Pos(ObsBase(lat) + 1000, ObsLon(lon)), <<TVP(1, 320)>>),
      Series("", Pos(ObsBase(lat) + 1000, ObsLon(lon)), <<TVP(1, 360)>>),
      Series(NullStr, Pos(ObsBase(lat) + 2000, ObsLon(lon)), <<TVP(2, 5000), TVP(1, 40)>>),
      Series("Asema B", Pos(ObsBase(lat) + 3000, ObsLon(lon)), <<TVP(2, 360)>>) }

RECURSIVE SeqsUpTo(_, _)
SeqsUpTo(S, n) ==
    IF n = 0 THEN { <<>> }
    ELSE SeqsUpTo(S, n - 1) \cup { Append(d, x) : d \in SeqsUpTo(S, n - 1), x \in S }

\* ----------------------------------------------------------- forecast engine
\* The parsed forecast (the Map of parseTimeValuePairForecast): a bucket
\* for each of the next three dates (Null: no sample of that date) and
\* `other`: whether a bucket of any other date exists.  A bucket holds the
\* temperature and precipitation samples of the date, in 1/10 degree and
\* 1/10 mm, and its weather-symbol samples (codes), each in the order of
\* the document.
BucketWithSymbols(temps, precip, symbols) ==
    [kind |-> "bucket", temps |-> temps, precip |-> precip, symbols |-> symbols]

\* A bucket of a document without a weather-symbol series, which is what
\* the query of line 1037 asks for.
Bucket(temps, precip) == BucketWithSymbols(temps, precip, <<>>)
DailyData(other, days) == [other |-> other, days |-> days]

RECURSIVE Sum(_)
Sum(q) == IF q = <<>> THEN 0 ELSE Head(q) + Sum(Tail(q))

RECURSIVE Max(_)
Max(q) == IF Len(q) = 1 THEN Head(q)
          ELSE LET m == Max(Tail(q)) IN IF Head(q) > m THEN Head(q) ELSE m

\* dailyData.size (line 1056).
Size(dailyData) ==
    (IF dailyData.other THEN 1 ELSE 0)
    + Cardinality({ i \in 1 .. 3 : dailyData.days[i] # Null })

RECURSIVE Min(_)
Min(q) == IF Len(q) = 1 THEN Head(q)
          ELSE LET m == Min(Tail(q)) IN IF Head(q) < m THEN Head(q) ELSE m

ThawCondition(date, maxTemp, totalPrecip) ==
    [date |-> date, maxTemp |-> maxTemp, totalPrecip |-> totalPrecip]

\* Lines 1003-1015 without the labels.  date is the number of days ahead
\* of today; snowDepth is in cm, the temperatures in whole degrees,
\* precipAmount in 1/10 mm.
ForecastDay(date, snowDepth, minTemp, maxTemp, temperature, precipAmount, precipType, icon) ==
    [date |-> date, snowDepth |-> snowDepth, minTemp |-> minTemp, maxTemp |-> maxTemp,
     temperature |-> temperature, precipAmount |-> precipAmount, precipType |-> precipType,
     icon |-> icon]

\* The keys of `counts` in the order of Object.keys (line 1254): the codes
\* are non-negative integers, and such keys are listed in ascending numeric
\* order whatever the order of their insertion.
RECURSIVE ObjectKeys(_)
ObjectKeys(S) ==
    IF S = {} THEN <<>>
    ELSE LET least == CHOOSE c \in S : \A d \in S : c <= d
         IN  <<least>> \o ObjectKeys(S \ {least})

\* counts[symbol] after the loop of lines 1249-1251.
CountOf(symbols, symbol) == Cardinality({ k \in DOMAIN symbols : symbols[k] = symbol })

\* Lines 1252-1261: the loop over the keys from the k-th key on.
RECURSIVE MostCommonFrom(_, _, _, _, _)
MostCommonFrom(symbols, keys, k, maxCount, mostCommon) ==
    IF k > Len(keys) THEN mostCommon
    ELSE LET count == CountOf(symbols, keys[k]) IN
         IF count > maxCount
         THEN MostCommonFrom(symbols, keys, k + 1, count, keys[k])
         ELSE MostCommonFrom(symbols, keys, k + 1, maxCount, mostCommon)

\* Fault: a later key of the same count replaces the one chosen.
getMostCommonSymbolLastKey(symbols) ==
    IF Len(symbols) = 0 THEN 0
    ELSE LET keys == ObjectKeys({ symbols[k] : k \in DOMAIN symbols })
             best == CHOOSE c \in DOMAIN keys :
                        \A d \in DOMAIN keys :
                            \/ CountOf(symbols, keys[c]) > CountOf(symbols, keys[d])
                            \/ CountOf(symbols, keys[c]) = CountOf(symbols, keys[d]) /\ c >= d
         IN  keys[best]

\* Lines 1246-1263.
getMostCommonSymbol(symbols) ==
    IF Len(symbols) = 0 THEN 0
    ELSE MostCommonFrom(symbols, ObjectKeys({ symbols[k] : k \in DOMAIN symbols }),
                        1, 0, symbols[1])

\* Lines 1265-1285.  temp in whole degrees, precip in 1/10 mm.
getWeatherIconFromSymbol(symbol, temp, precip) ==
    IF symbol >= 51 /\ symbol <= 54 THEN "snow"
    ELSE IF symbol >= 41 /\ symbol <= 45 THEN "snow"
    ELSE IF symbol >= 31 /\ symbol <= 34 THEN "rain"
    ELSE IF symbol >= 21 /\ symbol <= 25 THEN (IF temp < 0 THEN "snow" ELSE "rain")
    ELSE IF symbol >= 71 /\ symbol <= 74 THEN "rain"
    ELSE IF symbol = 1 THEN "sunny"
    ELSE IF symbol = 2 THEN "partly-cloudy"
    ELSE IF precip > 0 /\ temp < 0 THEN "snow"
    ELSE IF precip > 0 THEN "rain"
    ELSE "cloudy"

\* Fault: the average decides before the crossing of 0 degrees.
determinePrecipTypeAvgFirst(avgTemp, maxTemp, minTemp, precipAmount) ==
    IF precipAmount <= 0 THEN "none"
    ELSE IF maxTemp < -1 THEN "snow"
    ELSE IF minTemp > 2 THEN "rain"
    ELSE IF avgTemp <= 0 THEN "snow"
    ELSE IF avgTemp >= 2 THEN "rain"
    ELSE "sleet"

\* Lines 1208-1225.  Temperatures in whole degrees.
determinePrecipType(avgTemp, maxTemp, minTemp, precipAmount) ==
    IF precipAmount <= 0 THEN "none"
    ELSE IF maxTemp < -1 THEN "snow"
    ELSE IF minTemp > 2 THEN "rain"
    ELSE IF maxTemp > 0 /\ minTemp < 0 THEN "sleet"
    ELSE IF avgTemp <= 0 THEN "snow"
    ELSE IF avgTemp >= 2 THEN "rain"
    ELSE "sleet"

\* Lines 1081-1099, for the date i days ahead: the thaw condition it
\* pushes, if any.  maxTemp is rounded to a degree, totalPrecip is the
\* unrounded sum (1/10 mm); the samples are whole tenths, so that the sum
\* rounded to 0.1 mm (line 1086) is the sum.
ThawOfDay(dailyData, i) ==
    LET dayData == dailyData.days[i] IN
    IF dayData # Null /\ Len(dayData.temps) > 0
    THEN LET maxTemp == MathRound(Max(dayData.temps), 10)
             totalPrecip == Sum(dayData.precip)
         IN  IF maxTemp >= 1 /\ totalPrecip >= 50
             THEN << ThawCondition(i, maxTemp, totalPrecip) >>
             ELSE <<>>
    ELSE <<>>

\* Fault: a warm day melts the snow below the ground.
AccumulateNoFloor(accumulatedSnow, avgTemp, totalPrecip) ==
    IF avgTemp < 0 /\ totalPrecip > 0 THEN accumulatedSnow + totalPrecip
    ELSE IF avgTemp > 2 THEN accumulatedSnow - (avgTemp - 2) * 2 * 10
    ELSE accumulatedSnow

\* Lines 1102-1106.  accumulatedSnow and totalPrecip in 1/10, avgTemp in
\* whole degrees: the precipitation (mm) is added to the depth (cm) as it is.
Accumulate(accumulatedSnow, avgTemp, totalPrecip) ==
    IF avgTemp < 0 /\ totalPrecip > 0 THEN accumulatedSnow + totalPrecip
    ELSE IF avgTemp > 2
         THEN LET melted == accumulatedSnow - (avgTemp - 2) * 2 * 10
              IN  IF melted < 0 THEN 0 ELSE melted
    ELSE accumulatedSnow

\* Fault: a date is built from its samples as soon as it has a sample of
\* any kind, with the default temperatures where it has no temperature.
ForecastIterationAnySample(dailyData, lat, i, accumulatedSnow) ==
    LET dayData == dailyData.days[i]
        defaultTemp == IF Gt(lat, 640000) THEN -8 ELSE -3
    IN
    IF dayData # Null /\ (Len(dayData.temps) > 0 \/ Len(dayData.precip) > 0)
    THEN LET some == Len(dayData.temps) > 0
             minTemp == IF some THEN MathRound(Min(dayData.temps), 10) ELSE defaultTemp - 3
             maxTemp == IF some THEN MathRound(Max(dayData.temps), 10) ELSE defaultTemp + 2
             avgTemp == IF some THEN MathRound(Sum(dayData.temps), 10 * Len(dayData.temps))
                        ELSE defaultTemp
             totalPrecip == Sum(dayData.precip)
             precipType == determinePrecipType(avgTemp, maxTemp, minTemp, totalPrecip)
             acc == Accumulate(accumulatedSnow, avgTemp, totalPrecip)
             mostCommonSymbol == getMostCommonSymbol(dayData.symbols)
             icon == getWeatherIconFromSymbol(mostCommonSymbol, avgTemp, totalPrecip)
         IN  [day |-> ForecastDay(i, MathRound(acc, 10), minTemp, maxTemp, avgTemp,
                                  totalPrecip, precipType, icon),
              accumulatedSnow |-> acc]
    ELSE [day |-> ForecastDay(i, MathRound(accumulatedSnow, 10), defaultTemp - 3,
                              defaultTemp + 2, defaultTemp, 0, "none", "cloudy"),
          accumulatedSnow |-> accumulatedSnow]

\* Lines 1072-1142: one turn of the loop, for the date i days ahead; the
\* day it pushes and the accumulated depth (1/10 cm) after it.
ForecastIteration(dailyData, lat, i, accumulatedSnow) ==
    LET dayData == dailyData.days[i] IN
    IF dayData # Null /\ Len(dayData.temps) > 0
    THEN LET minTemp == MathRound(Min(dayData.temps), 10)
             maxTemp == MathRound(Max(dayData.temps), 10)
             avgTemp == MathRound(Sum(dayData.temps), 10 * Len(dayData.temps))
             totalPrecip == Sum(dayData.precip)
             precipType == determinePrecipType(avgTemp, maxTemp, minTemp, totalPrecip)
             acc == Accumulate(accumulatedSnow, avgTemp, totalPrecip)
             mostCommonSymbol == getMostCommonSymbol(dayData.symbols)
             icon == getWeatherIconFromSymbol(mostCommonSymbol, avgTemp, totalPrecip)
         IN  [day |-> ForecastDay(i, MathRound(acc, 10), minTemp, maxTemp, avgTemp,
                                  totalPrecip, precipType, icon),
              accumulatedSnow |-> acc]
    ELSE LET defaultTemp == IF Gt(lat, 640000) THEN -8 ELSE -3 IN
         [day |-> ForecastDay(i, MathRound(accumulatedSnow, 10), defaultTemp - 3,
                              defaultTemp + 2, defaultTemp, 0, "none", "cloudy"),
          accumulatedSnow |-> accumulatedSnow]

\* Fault: the lowest temperature of a fallback day is put above its
\* average.
FallbackDayMinAbove(lat, month, i) ==
    LET isWinter == month >= 10 \/ month <= 3
        baseSnow == IF Gt(lat, 640000) THEN 45 ELSE IF Gt(lat, 620000) THEN 30 ELSE 15
        baseTemp == IF Gt(lat, 640000) THEN -12 ELSE IF Gt(lat, 620000) THEN -8 ELSE -4
        temp == baseTemp + ((i % 3) - 1) * 2
    IN  ForecastDay(i,
                    IF isWinter THEN baseSnow + i * 2
                    ELSE IF baseSnow - i * 3 < 0 THEN 0 ELSE baseSnow - i * 3,
                    temp + 3, temp + 2, temp,
                    IF isWinter THEN 10 ELSE 0,
                    IF isWinter THEN "snow" ELSE "none",
                    IF isWinter THEN "snow" ELSE "cloudy")

\* Lines 1300-1320: the day the fallback pushes for the date i days ahead.
FallbackDay(lat, month, i) ==
    LET isWinter == month >= 10 \/ month <= 3
        baseSnow == IF Gt(lat, 640000) THEN 45 ELSE IF Gt(lat, 620000) THEN 30 ELSE 15
        baseTemp == IF Gt(lat, 640000) THEN -12 ELSE IF Gt(lat, 620000) THEN -8 ELSE -4
        temp == baseTemp + ((i % 3) - 1) * 2
    IN  ForecastDay(i,
                    IF isWinter THEN baseSnow + i * 2
                    ELSE IF baseSnow - i * 3 < 0 THEN 0 ELSE baseSnow - i * 3,
                    temp - 3, temp + 2, temp,
                    IF isWinter THEN 10 ELSE 0,
                    IF isWinter THEN "snow" ELSE "none",
                    IF isWinter THEN "snow" ELSE "cloudy")

\* Fault: the loop of the fallback ends a day early.
getFallbackForecastTwoDays(lat, month) ==
    << FallbackDay(lat, month, 1), FallbackDay(lat, month, 2) >>

\* Lines 1287-1323.  month is Date.getMonth() of today.
getFallbackForecast(lat, month) ==
    << FallbackDay(lat, month, 1), FallbackDay(lat, month, 2), FallbackDay(lat, month, 3) >>

ForecastWithThawResult(forecast, thawConditions) ==
    [forecast |-> forecast,
     hasThawConditions |-> Len(thawConditions) > 0,
     thawConditions |-> thawConditions]

\* Lines 1044-1048, 1058-1062, 1151-1155: the seasonal fallback, without
\* thaw conditions.
FallbackForecastResult(lat, month) ==
    [forecast |-> getFallbackForecast(lat, month),
     hasThawConditions |-> FALSE,
     thawConditions |-> <<>>]

\* Lines 1069-1142: the loop from the date i days ahead on.
RECURSIVE ForecastLoop(_, _, _, _, _, _)
ForecastLoop(dailyData, lat, i, accumulatedSnow, forecast, thawConditions) ==
    IF i > 3 THEN ForecastWithThawResult(forecast, thawConditions)
    ELSE LET turn == ForecastIteration(dailyData, lat, i, accumulatedSnow) IN
         ForecastLoop(dailyData, lat, i + 1, turn.accumulatedSnow,
                      Append(forecast, turn.day),
                      thawConditions \o ThawOfDay(dailyData, i))

\* Lines 1069-1148: the forecast built from the samples, seeded with the
\* depth (cm) that getSnowDepth returned.
BuildForecast(dailyData, lat, currentSnowDepth) ==
    ForecastLoop(dailyData, lat, 1, currentSnowDepth * 10, <<>>, <<>>)

\* What the forecast service may answer: fetch rejects, a non-OK status,
\* response.text() rejects, or a document.  A document gives the samples
\* per date; `badTime` says that a numeric sample carries a time that is
\* no date, on which toISOString throws (line 1186).
ForecastBuckets ==
    { Null,
      Bucket(<<-50, -30>>, <<>>),
      Bucket(<<5, 20>>, <<30, 30>>),
      Bucket(<<5, 20>>, <<20, 20>>),
      Bucket(<<>>, <<60>>) }

ForecastDocs ==
    { [badTime |-> TRUE, other |-> FALSE, days |-> <<Null, Null, Null>>],
      [badTime |-> FALSE, other |-> TRUE, days |-> <<Null, Null, Null>>] }
    \cup { [badTime |-> FALSE, other |-> FALSE, days |-> <<d1, Null, Null>>] :
              d1 \in ForecastBuckets }
    \cup { [badTime |-> FALSE, other |-> FALSE,
            days |-> <<Bucket(<<-50, -30>>, <<>>), Bucket(<<5, 20>>, <<30, 30>>), Null>>] }

ForecastResponses ==
    { [kind |-> "throw"], [kind |-> "status"], [kind |-> "textfail"] }
    \cup { [kind |-> "body", doc |-> d] : d \in ForecastDocs }

\* Lines 1160-1205.
parseTimeValuePairForecast(doc) ==
    IF doc.badTime THEN Throw ELSE Return(DailyData(doc.other, doc.days))

\* Fault: a parsed forecast without any sample is built, not replaced.
ForecastFetchedNoSizeCheck(resp, lat, month) ==
    IF resp.kind \in {"throw", "textfail"} THEN Throw
    ELSE IF resp.kind = "status" THEN Return(FallbackForecastResult(lat, month))
    ELSE LET parsed == parseTimeValuePairForecast(resp.doc) IN
         IF parsed.kind = "throw" THEN Throw
         ELSE [kind |-> "continue", value |-> parsed.value]

\* Lines 1041-1063 once the forecast request has settled: the try block
\* returns the fallback ("return"), throws, or goes on to getSnowDepth
\* ("continue") with the parsed samples.
ForecastFetched(resp, lat, month) ==
    IF resp.kind \in {"throw", "textfail"} THEN Throw
    ELSE IF resp.kind = "status" THEN Return(FallbackForecastResult(lat, month))
    ELSE LET parsed == parseTimeValuePairForecast(resp.doc) IN
         IF parsed.kind = "throw" THEN Throw
         ELSE IF Size(parsed.value) = 0 THEN Return(FallbackForecastResult(lat, month))
         ELSE [kind |-> "continue", value |-> parsed.value]

\* Lines 1149-1156: the catch block of getSnowForecastWithThawWarning.
ForecastCatch(done, lat, month) ==
    IF done.kind = "throw" THEN Return(FallbackForecastResult(lat, month)) ELSE done

\* ------------------------------------------------------ snow load calculator
\* parseInt (line 164) on a string given as its characters: an optional
\* sign, then the longest prefix of decimal digits; NaN when there is none.
Digits == <<"0", "1", "2", "3", "4", "5", "6", "7", "8", "9">>
IsDigit(c) == \E i \in 1 .. 10 : Digits[i] = c
DigitValue(c) == (CHOOSE i \in 1 .. 10 : Digits[i] = c) - 1

RECURSIVE ParseDigits(_, _)
ParseDigits(chars, acc) ==
    IF chars = <<>> \/ ~IsDigit(Head(chars)) THEN acc
    ELSE ParseDigits(Tail(chars), 10 * acc + DigitValue(Head(chars)))

parseInt(chars) ==
    LET negative == chars # <<>> /\ Head(chars) = "-"
        body == IF chars # <<>> /\ Head(chars) \in {"-", "+"} THEN Tail(chars) ELSE chars
    IN  IF body = <<>> \/ ~IsDigit(Head(body)) THEN NaN
        ELSE IF negative THEN -ParseDigits(body, 0) ELSE ParseDigits(body, 0)

\* The threshold query parameter: Absent, or a string as its characters.
Text(chars) == [kind |-> "text", chars |-> chars]

\* Line 164: a missing or empty parameter is falsy.
UserThreshold(threshold) ==
    IF threshold = Absent \/ threshold.chars = <<>> THEN 140 ELSE parseInt(threshold.chars)

\* Fault: the load is rounded down.
CurrentLoadFloor(depth) == (depth * 25) \div 10

\* Line 162.  depth is a whole number of cm.
CurrentLoad(depth) == MathRound(depth * 25, 10)

\* (load / threshold) * 100 >= bound (lines 165, 170, 173, 186, 187) in
\* exact arithmetic; the double-precision quotient gives the same answer for
\* every whole load 0..1250, threshold 1..400 and bound 60, 80, 100.  A
\* threshold of 0 divides to Infinity (NaN for load 0), a NaN threshold
\* compares false.
PercentageAtLeast(load, threshold, bound) ==
    IF IsNaN(threshold) THEN FALSE
    ELSE IF threshold > 0 THEN load * 100 >= bound * threshold
    ELSE IF threshold = 0 THEN load > 0
    ELSE load * 100 <= bound * threshold

\* Fault: the bound of critical is open.
StatusOpenBound(load, threshold) ==
    IF ~IsNaN(threshold) /\ threshold > 0 /\ load > threshold THEN "critical"
    ELSE IF ~IsNaN(threshold) /\ threshold > 0 /\ load * 100 >= 80 * threshold THEN "moderate"
    ELSE IF ~IsNaN(threshold) /\ threshold > 0 THEN "safe"
    ELSE "critical"

\* Lines 167-179.
Status(load, threshold) ==
    IF PercentageAtLeast(load, threshold, 100) THEN "critical"
    ELSE IF PercentageAtLeast(load, threshold, 80) THEN "moderate"
    ELSE "safe"

StatusText(status) ==
    IF status = "critical" THEN "Kriittinen"
    ELSE IF status = "moderate" THEN "Kohtalainen riski"
    ELSE "Turvallinen"

\* Fault: the gate of the warning is at 50 %.
ShowHeavyWetSnowWarningAtHalf(load, threshold, hasThawConditions) ==
    ~IsNaN(threshold) /\ threshold > 0 /\ load * 100 >= 50 * threshold /\ hasThawConditions

\* Lines 186-187.
ShowHeavyWetSnowWarning(load, threshold, hasThawConditions) ==
    PercentageAtLeast(load, threshold, 60) /\ hasThawConditions

\* Fault: the service area is decided on the rounded distance.
IsWithinServiceAreaRounded(distanceFromKuopio) == Le(RoundKm(distanceFromKuopio), 80)

\* Line 158, on the distance in metres.
IsWithinServiceArea(distanceFromKuopio) == Le(distanceFromKuopio, 80000)

\* Lines 190-207: the relative time of the observation.  A Date is truthy
\* whatever its time, so that every observation time gives a text; the
\* text itself (minutes, hours or days ago) is left out.
UpdatedAgo(updatedAt) == IF updatedAt = NullNum THEN NullStr ELSE "sitten"

\* Line 209: res.json writes a number that is NaN as null.
JsonNumber(x) == IF IsNaN(x) THEN NullNum ELSE x

\* Lines 152-158, 162-207, 209-226: the body of the 200 response, as the
\* handler passes it to res.json.
SnowDataResult(info, snowResult, userThreshold, forecastResult) ==
    LET distanceFromKuopio ==
            calculateDistance(info.lat, info.lon, KUOPIO_CENTER.lat, KUOPIO_CENTER.lon)
        currentLoad == CurrentLoad(snowResult.depth)
        status == Status(currentLoad, userThreshold)
    IN  [currentLoad |-> currentLoad,
         snowDepth |-> snowResult.depth,
         threshold |-> userThreshold,
         status |-> status,
         statusText |-> StatusText(status),
         forecast |-> forecastResult.forecast,
         city |-> info.city,
         distanceFromKuopio |-> RoundKm(distanceFromKuopio),
         isWithinServiceArea |-> IsWithinServiceArea(distanceFromKuopio),
         heavyWetSnowWarning |->
             ShowHeavyWetSnowWarning(currentLoad, userThreshold,
                                     forecastResult.hasThawConditions),
         thawConditions |-> forecastResult.thawConditions,
         stationInfo |-> [name |-> snowResult.stationName,
                          distance |-> snowResult.stationDistance,
                          updatedAgo |-> UpdatedAgo(snowResult.updatedAt)]]

\* The responses of GET /api/snow-data/:postalCode (lines 145-148, 209, 229).
Ok(body) == [status |-> 200, body |-> body]
NotFound == [status |-> 404, error |-> "postal_code_not_found"]
ServerError == [status |-> 500, message |-> "Tietojen haku epaonnistui"]
NoResponse == [status |-> 0]

\* --------------------------------------------------------- location storage
\* DatabaseStorage (part_001) on the locations table (part_004, lines
\* 53-62).  A row is kept by its owner and its default flag; an id that
\* was deleted is not given out again, as gen_random_uuid() gives fresh ids.
MaxLocations == 3

LocationIds == 1 .. MaxLocations
Users == {"u1", "u2"}
Deleted == [kind |-> "deleted"]
Location(userId, isDefault) == [kind |-> "location", userId |-> userId, isDefault |-> isDefault]
IsRow(row) == row.kind = "location"

\* Lines 102 and 124: update locations set isDefault = false where
\* userId = the user.
UnsetDefaults(table, userId) ==
    [id \in LocationIds |->
        IF IsRow(table[id]) /\ table[id].userId = userId
        THEN [table[id] EXCEPT !.isDefault = FALSE]
        ELSE table[id]]

\* Line 126: update locations set isDefault = true where id = locationId.
\* The user is not part of the condition.
SetDefault(table, userId, locationId) ==
    [id \in LocationIds |->
        IF id = locationId /\ IsRow(table[id])
        THEN [table[id] EXCEPT !.isDefault = TRUE]
        ELSE table[id]]

\* Line 105: insert ... returning, with a fresh id.
FreshIds(table) == { id \in LocationIds : table[id] = Null }
InsertLocation(table, userId, isDefault) ==
    LET id == CHOOSE i \in FreshIds(table) : \A j \in FreshIds(table) : i <= j
    IN  [table EXCEPT ![id] = Location(userId, isDefault)]

\* Lines 110-114: update locations set <patch> where id = the id.  Of the
\* patch (insertLocationSchema.partial(), part_004 lines 64-74) the model
\* keeps isDefault: absent, true or false.
LocationPatch(hasIsDefault, isDefault) == [hasIsDefault |-> hasIsDefault, isDefault |-> isDefault]
LocationPatches ==
    { LocationPatch(FALSE, FALSE), LocationPatch(TRUE, FALSE), LocationPatch(TRUE, TRUE) }
UpdateRow(table, id, patch) ==
    IF IsRow(table[id]) /\ patch.hasIsDefault
    THEN [table EXCEPT ![id].isDefault = patch.isDefault]
    ELSE table

\* Line 119: delete from locations where id = the id.
DeleteRow(table, id) == IF IsRow(table[id]) THEN [table EXCEPT ![id] = Deleted] ELSE table

\* The statement a storage call still has to issue after its first await.
PendingInsert(userId, isDefault) == [op |-> "insert", userId |-> userId, isDefault |-> isDefault]
PendingSetDefault(userId, locationId) ==
    [op |-> "setDefault", userId |-> userId, locationId |-> locationId]

\* ------------------------------------------ POST /api/notifications/send
\* The values of a request body: undefined, a number, or a string, of which
\* the model keeps the length and the text.
Num(n) == [kind |-> "number", value |-> n]
Str(length, text) == [kind |-> "string", length |-> length, text |-> text]
IsFalsy(v) ==
    \/ v.kind \in {"absent", "null"}
    \/ v.kind = "number" /\ (v.value = 0 \/ IsNaN(v.value))
    \/ v.kind = "string" /\ v.length = 0

NotificationBody(type, currentLoad, alertThreshold, id) ==
    [type |-> type, currentLoad |-> currentLoad, alertThreshold |-> alertThreshold,
     playerId |-> id]

\* Lines 416-435: the payload of the outbound call.
NotificationPayload(appId, body) ==
    [app_id |-> appId,
     headings |-> IF body.type.text = "wet-snow-warning"
                  THEN "Lumivahti: VAROITUS!" ELSE "Lumivahti",
     include_player_ids |-> << body.playerId >>]

BadRequest(message) == [status |-> 400, message |-> message]
Unavailable == [status |-> 503, message |-> "Push-ilmoitukset eivat ole kaytossa"]
SendFailed == [status |-> 500, message |-> "Ilmoituksen lahetys epaonnistui"]
PushServerError == [status |-> 500, message |-> "Palvelinvirhe"]
PushSuccess == [status |-> 200, message |-> "success"]

\* Fault: the length of the player id is not checked.
SendValidationAnyLength(body, env) ==
    IF IsFalsy(body.playerId) \/ body.playerId.kind # "string"
    THEN BadRequest("Virheellinen tilaus-ID")
    ELSE IF IsFalsy(body.type) \/ body.type.kind # "string"
            \/ body.type.text \notin {"regular", "wet-snow-warning"}
    THEN BadRequest("Virheellinen ilmoitustyyppi")
    ELSE IF body.type.text = "regular"
            /\ (\/ body.currentLoad.kind # "number"
                \/ Lt(body.currentLoad.value, 0)
                \/ Gt(body.currentLoad.value, 500))
    THEN BadRequest("Virheellinen lumikuorma")
    ELSE IF body.type.text = "regular"
            /\ (\/ body.alertThreshold.kind # "number"
                \/ Lt(body.alertThreshold.value, 50)
                \/ Gt(body.alertThreshold.value, 200))
    THEN BadRequest("Virheellinen halytysraja")
    ELSE IF ~env.appId \/ ~env.apiKey THEN Unavailable
    ELSE Null

\* Lines 379-414: the answer of the checks before the outbound call, Null
\* if the request passes them.
SendValidation(body, env) ==
    IF IsFalsy(body.playerId) \/ body.playerId.kind # "string" \/ body.playerId.length < 32
    THEN BadRequest("Virheellinen tilaus-ID")
    ELSE IF IsFalsy(body.type) \/ body.type.kind # "string"
            \/ body.type.text \notin {"regular", "wet-snow-warning"}
    THEN BadRequest("Virheellinen ilmoitustyyppi")
    ELSE IF body.type.text = "regular"
            /\ (\/ body.currentLoad.kind # "number"
                \/ Lt(body.currentLoad.value, 0)
                \/ Gt(body.currentLoad.value, 500))
    THEN BadRequest("Virheellinen lumikuorma")
    ELSE IF body.type.text = "regular"
            /\ (\/ body.alertThreshold.kind # "number"
                \/ Lt(body.alertThreshold.value, 50)
                \/ Gt(body.alertThreshold.value, 200))
    THEN BadRequest("Virheellinen halytysraja")
    ELSE IF ~env.appId \/ ~env.apiKey THEN Unavailable
    ELSE Null

\* ------------------------------------------------------------- the client
\* ROOF_TYPES (part_004, lines 42-48), with the names in ASCII.
RoofTypes ==
    { "Omakotitalo (kestava)", "Vanhempi omakotitalo", "Autokatos / varasto",
      "Halli / peltikatos", "Oma raja" }

ROOF_TYPES(roofType) ==
    IF roofType = "Omakotitalo (kestava)" THEN 180
    ELSE IF roofType = "Vanhempi omakotitalo" THEN 140
    ELSE IF roofType = "Autokatos / varasto" THEN 100
    ELSE IF roofType = "Halli / peltikatos" THEN 120
    ELSE 0

\* A number of the stored user that may be undefined (NullNum) is truthy if
\* it is there and is not 0.
Truthy(n) == n # NullNum /\ n # 0 /\ ~IsNaN(n)

\* Home.tsx lines 65-71 (and part_005, lines 46-51).
getEffectiveRoofThreshold(roofType, customThreshold) ==
    IF roofType = "Oma raja" /\ Truthy(customThreshold) THEN customThreshold
    ELSE IF ROOF_TYPES(roofType) # 0 THEN ROOF_TYPES(roofType) ELSE 140

\* UserData (part_002, lines 139-145), without the postal code.
UserData(roofType, roofThreshold, alertThreshold, notificationsEnabled) ==
    [roofType |-> roofType, roofThreshold |-> roofThreshold,
     alertThreshold |-> alertThreshold, notificationsEnabled |-> notificationsEnabled]

\* Of the snow data (Home.tsx lines 27-50) what the notification effect reads.
SnowData(currentLoad, heavyWetSnowWarning) ==
    [kind |-> "data", currentLoad |-> currentLoad, heavyWetSnowWarning |-> heavyWetSnowWarning]

\* A call of sendNotification (part_000, line 133); NullNum for an
\* argument that is left out.
Notification(type, currentLoad, alertThreshold) ==
    [type |-> type, currentLoad |-> currentLoad, alertThreshold |-> alertThreshold]

\* Home.tsx line 96.
AlertThreshold(user, threshold) ==
    IF Truthy(user.alertThreshold) THEN user.alertThreshold
    ELSE MathRound(threshold * 8, 10)

\* Part_005, line 68: the default of the settings page.
defaultAlertThreshold(effectiveRoofThreshold) ==
    IF MathRound(effectiveRoofThreshold * 8, 10) > 200 THEN 200
    ELSE MathRound(effectiveRoofThreshold * 8, 10)

\* What the effect leaves behind: the two refs ("null", "true", "false"
\* for the first) and the notifications it sent.
EffectResult(lastWarning, lastAlert, notifications) ==
    [lastWarningStateRef |-> lastWarning, lastAlertStateRef |-> lastAlert,
     sent |-> notifications]

\* Home.tsx lines 90-113: the notification effect.
HomeEffect(snowData, user, threshold, lastWarning, lastAlert) ==
    IF snowData = Null \/ ~user.notificationsEnabled
    THEN EffectResult(lastWarning, lastAlert, <<>>)
    ELSE LET alertThreshold == AlertThreshold(user, threshold)
             shouldShowWetSnowWarning == snowData.heavyWetSnowWarning
             shouldShowRegularAlert == snowData.currentLoad >= alertThreshold
             warning == IF shouldShowWetSnowWarning /\ lastWarning # "true"
                        THEN << Notification("wet-snow-warning", NullNum, NullNum) >>
                        ELSE <<>>
             regular == IF shouldShowRegularAlert /\ ~lastAlert /\ ~shouldShowWetSnowWarning
                        THEN << Notification("regular", snowData.currentLoad, alertThreshold) >>
                        ELSE <<>>
         IN  EffectResult(IF shouldShowWetSnowWarning THEN "true" ELSE "false",
                          shouldShowRegularAlert,
                          warning \o regular)

\* Part_000, lines 158-168: the body that sendNotification posts for a
\* subscribed client; JSON.stringify leaves out what is undefined.
PostedBody(n, id) ==
    NotificationBody(Str(IF n.type = "regular" THEN 7 ELSE 16, n.type),
                     IF n.currentLoad = NullNum THEN Absent ELSE Num(n.currentLoad),
                     IF n.alertThreshold = NullNum THEN Absent ELSE Num(n.alertThreshold),
                     id)

\* ------------------------------------------------------------------ state
VARIABLES
    geocodeCache,   \* line 491: postal code -> Undefined | Null | info
    pc,             \* per resolver task: "idle", "geocoding", "resolved", "threw"
    postalCode,     \* per task: the postal code being resolved
    postalInfo,     \* per task: what getPostalCodeInfo returned
    calls,          \* per task: cache accesses and upstream calls, in order
    geoCalls,       \* history: external geocoding lookups issued per postal code
    firstInfo,      \* history: the result of the first completed lookup per code
    hpc,            \* the snow-data handler: "idle", "resolving", "locating",
                    \*   "forecasting", "locating2" (getSnowDepth of the forecast), "done";
                    \*   "parsing", "parsed" and "building" in SpecParse and SpecForecast
    query,          \* req.query.threshold, drawn where line 164 reads it
    month,          \* Date.getMonth() of the request, NullNum until the clock is read
    locIdx,         \* the step of LocatorPlan whose request is in flight
    settled,        \* history: what the settled steps of the locator's current
                    \*   run handed to its loops, "found" or "none", in order
    snowResult,     \* line 161: what the locator returned to the handler
    dailyData,      \* line 1054: the parsed forecast samples
    response,       \* what the handler answered
    forecastResp,   \* history: what the forecast service answered to the request
    currentSnowDepth, \* line 1066: what getSnowDepth returned to the forecast
                    \*   engine, NullNum until it has
    xmlText,        \* line 812, 835: the observation document under the parser
    accumulatedSnow, \* line 1070: the accumulated depth of the loop, 1/10 cm
    forecast,       \* line 1069: the days the loop has pushed
    thawConditions, \* line 1026: the thaw conditions the loop has pushed
    locations,      \* the locations table: id -> Null | row (userId, isDefault)
    dbOps,          \* per storage call in flight: the statement it still has to issue
    pushBody,       \* POST /api/notifications/send: req.body of the request at hand
    pushEnv,        \* process.env: ONESIGNAL_APP_ID, ONESIGNAL_REST_API_KEY
    pushPc,         \* the send handler: "idle", "sending" (outbound call in flight), "done"
    outbound,       \* history: the payload of the request's outbound push call, or Null
    pushResponse,   \* what the send handler answered
    activeTab,      \* App: the tab shown; Home is mounted on "home" only
    userData,       \* App and localStorage lumivahti_user
    data,           \* Home: the snow data of the query (its cache), or Null
    playerId,       \* useOneSignal in Home: state.playerId
    lastWarningStateRef, \* Home line 77: "null", "true" or "false"; as at a
                    \*   mount while Home is not mounted
    lastAlertStateRef,   \* Home line 78
    sent,           \* history: the sendNotification calls of the last step
    warningsInRun,  \* history: wet-snow warnings sent in the current run of
                    \*   data updates with heavyWetSnowWarning true (capped)
    regularInRun,   \* history: a regular alert was sent in the current run of
                    \*   data updates with currentLoad >= alertThreshold
    settingsAlertThreshold \* Settings (part_005, line 69): the state
                    \*   alertThreshold; NullNum while Settings is not mounted

resolverVars == <<geocodeCache, pc, postalCode, postalInfo, calls, geoCalls, firstInfo>>
loopVars == <<xmlText, accumulatedSnow, forecast, thawConditions>>
handlerVars == <<hpc, query, month, locIdx, settled, snowResult, dailyData, response,
                 forecastResp, currentSnowDepth, loopVars>>
storageVars == <<locations, dbOps>>
pushVars == <<pushBody, pushEnv, pushPc, outbound, pushResponse>>
clientVars == <<activeTab, userData, data, playerId, lastWarningStateRef,
                lastAlertStateRef, sent, warningsInRun, regularInRun,
                settingsAlertThreshold>>
sideVars == <<storageVars, pushVars, clientVars>>
vars == <<geocodeCache, pc, postalCode, postalInfo, calls, geoCalls, firstInfo,
          hpc, query, month, locIdx, settled, snowResult, dailyData, response,
          forecastResp, currentSnowDepth, xmlText, accumulatedSnow, forecast,
          thawConditions, locations, dbOps, pushBody, pushEnv, pushPc, outbound,
          pushResponse, activeTab, userData, data, playerId, lastWarningStateRef,
          lastAlertStateRef, sent, warningsInRun, regularInRun,
          settingsAlertThreshold>>

InitResolver ==
    /\ geocodeCache = [p \in PostalCodes |-> Undefined]
    /\ pc = [r \in Reqs |-> "idle"]
    /\ postalCode = [r \in Reqs |-> "none"]
    /\ postalInfo = [r \in Reqs |-> Undefined]
    /\ calls = [r \in Reqs |-> <<>>]
    /\ geoCalls = [p \in PostalCodes |-> 0]
    /\ firstInfo = [p \in PostalCodes |-> Undefined]

InitHandler ==
    /\ hpc = "idle"
    /\ query = Absent
    /\ month = NullNum
    /\ locIdx = 0
    /\ settled = <<>>
    /\ snowResult = Null
    /\ dailyData = Null
    /\ response = NoResponse
    /\ forecastResp = Null
    /\ currentSnowDepth = NullNum

\* The locals of the parser and of the forecast loop, before they run.
InitLoop ==
    /\ xmlText = Null
    /\ accumulatedSnow = 0
    /\ forecast = <<>>
    /\ thawConditions = <<>>

\* The storage, the send handler and the client at rest.
InitStorage ==
    /\ locations = [id \in LocationIds |-> Null]
    /\ dbOps = [r \in Reqs |-> Null]

InitPush ==
    /\ pushBody = Null
    /\ pushEnv = [appId |-> TRUE, apiKey |-> TRUE]
    /\ pushPc = "idle"
    /\ outbound = Null
    /\ pushResponse = NoResponse

InitClient ==
    /\ activeTab = "home"
    /\ userData = UserData("Vanhempi omakotitalo", NullNum, NullNum, TRUE)
    /\ data = Null
    /\ playerId = Null
    /\ lastWarningStateRef = "null"
    /\ lastAlertStateRef = FALSE
    /\ sent = <<>>
    /\ warningsInRun = 0
    /\ regularInRun = FALSE
    /\ settingsAlertThreshold = NullNum

InitSide == InitStorage /\ InitPush /\ InitClient

Bump(n) == IF n < MaxGeoCalls THEN n + 1 ELSE n

\* getPostalCodeInfo(p) up to its first await: it returns at once from the
\* table or from the cache, or it issues the geocoding request.
GetPostalCodeInfoCall(r, p) ==
    LET plan == getPostalCodeInfo(p, geocodeCache) IN
    /\ postalCode' = [postalCode EXCEPT ![r] = p]
    /\ geocodeCache' = geocodeCache
    /\ firstInfo' = firstInfo
    /\ IF plan.kind = "static"
       THEN /\ postalInfo' = [postalInfo EXCEPT ![r] = plan.value]
            /\ pc' = [pc EXCEPT ![r] = "resolved"]
            /\ calls' = [calls EXCEPT ![r] = <<>>]
            /\ geoCalls' = geoCalls
       ELSE IF plan.kind = "cached"
       THEN /\ postalInfo' = [postalInfo EXCEPT ![r] = plan.value]
            /\ pc' = [pc EXCEPT ![r] = "resolved"]
            /\ calls' = [calls EXCEPT ![r] = <<"cache_read">>]
            /\ geoCalls' = geoCalls
       ELSE /\ postalInfo' = [postalInfo EXCEPT ![r] = Undefined]
            /\ pc' = [pc EXCEPT ![r] = "geocoding"]
            /\ calls' = [calls EXCEPT ![r] = <<"cache_read", "geocode">>]
            /\ geoCalls' = [geoCalls EXCEPT ![p] = Bump(@)]

\* getCoordinatesFromPostalCode (line 718) calls the resolver.
Resolve(r, p) ==
    /\ pc[r] = "idle"
    /\ hpc = "idle"
    /\ GetPostalCodeInfoCall(r, p)
    /\ UNCHANGED handlerVars
    /\ UNCHANGED sideVars

\* The geocoding request of task r settles; geocodePostalCode finishes.
GeocodeResponse(r, resp) ==
    LET p == postalCode[r]
        done == geocodePostalCodeFetched(resp)
        outcome == IF done.result.kind = "throw" THEN Throw ELSE done.result.value
    IN
    /\ pc[r] = "geocoding"
    /\ geocodeCache' = IF done.write = Undefined THEN geocodeCache
                       ELSE [geocodeCache EXCEPT ![p] = done.write]
    /\ calls' = IF done.write = Undefined THEN calls
                ELSE [calls EXCEPT ![r] = Append(@, "cache_write")]
    /\ postalInfo' = [postalInfo EXCEPT ![r] = outcome]
    /\ pc' = [pc EXCEPT ![r] = IF done.result.kind = "throw" THEN "threw" ELSE "resolved"]
    /\ firstInfo' = IF firstInfo[p] = Undefined
                    THEN [firstInfo EXCEPT ![p] = outcome]
                    ELSE firstInfo
    /\ UNCHANGED <<postalCode, geoCalls>>
    /\ UNCHANGED handlerVars
    /\ UNCHANGED sideVars

\* The caller of the resolver takes the result; the task is free again.
ResolveReturn(r) ==
    /\ pc[r] \in {"resolved", "threw"}
    /\ hpc = "idle"
    /\ pc' = [pc EXCEPT ![r] = "idle"]
    /\ postalCode' = [postalCode EXCEPT ![r] = "none"]
    /\ postalInfo' = [postalInfo EXCEPT ![r] = Undefined]
    /\ calls' = [calls EXCEPT ![r] = <<>>]
    /\ UNCHANGED <<geocodeCache, geoCalls, firstInfo>>
    /\ UNCHANGED handlerVars
    /\ UNCHANGED sideVars

\* ------------------------------------------- GET /api/snow-data/:postalCode
\* The handler runs in the resolver task Handler and appends its upstream
\* calls to that task's log.
Handler == CHOOSE r \in Reqs : \A q \in Reqs : r <= q

\* Date.getMonth() of the months the model draws: one of each class that
\* lines 967-969 and 1294 tell apart (March, April, July, November).
Months == {2, 3, 6, 10}

\* The month a clock read of the request gives: the month the request has
\* read before, any month at its first read.
ClockMonths == IF month = NullNum THEN Months ELSE {month}

ThresholdQueries ==
    { Absent, Text(<<"1", "0", "0">>), Text(<<"x">>) }

ObsResponses(lat, lon) ==
    { [kind |-> "throw"], [kind |-> "status"], [kind |-> "textfail"] }
    \cup { [kind |-> "body", doc |-> d] : d \in SeqsUpTo(ObsSeries(lat, lon), MaxSeries) }

Log(label) == calls' = [calls EXCEPT ![Handler] = Append(@, label)]

\* Lines 138-143: the request arrives and getPostalCodeInfo is called.
GetSnowData(p) ==
    /\ hpc = "idle"
    /\ pc[Handler] = "idle"
    /\ GetPostalCodeInfoCall(Handler, p)
    /\ hpc' = "resolving"
    /\ UNCHANGED <<query, month, locIdx, settled, snowResult, dailyData, response>>
    /\ UNCHANGED <<forecastResp, currentSnowDepth, loopVars>>
    /\ UNCHANGED sideVars

\* Fault: a location without a latitude counts as not found.
IsNotFoundOrNaN(info) == info = [kind |-> "null"] \/ IsNaN(info.lat)

\* Line 144: !postalInfo.
IsNotFound(info) == info = Null \/ info = Undefined

\* Lines 143-161: getPostalCodeInfo has settled.  A null answers 404; else
\* the locator starts and issues its first upstream call.
PostalInfoResolved ==
    LET info == postalInfo[Handler] IN
    /\ hpc = "resolving"
    /\ pc[Handler] \in {"resolved", "threw"}
    /\ IF pc[Handler] = "threw"
       THEN /\ response' = ServerError
            /\ hpc' = "done"
            /\ UNCHANGED <<locIdx, calls>>
       ELSE IF IsNotFound(info)
       THEN /\ response' = NotFound
            /\ hpc' = "done"
            /\ UNCHANGED <<locIdx, calls>>
       ELSE /\ response' = response
            /\ hpc' = "locating"
            /\ locIdx' = 1
            /\ Log(CallLabel(LocatorPlan(info.lat, info.lon, postalCode[Handler])[1]))
    /\ UNCHANGED <<geocodeCache, pc, postalCode, postalInfo, geoCalls, firstInfo>>
    /\ UNCHANGED <<query, month, settled, snowResult, dailyData, forecastResp, loopVars>>
    /\ UNCHANGED currentSnowDepth
    /\ UNCHANGED sideVars

\* Lines 162-226 with the forecast at hand: the 200 response.
Respond(result, forecastResult) ==
    \E q \in ThresholdQueries :
        /\ query' = q
        /\ response' = Ok(SnowDataResult(postalInfo[Handler], result, UserThreshold(q),
                                         forecastResult))
        /\ hpc' = "done"

\* The request of the locator's current step settles.  The locator returns
\* the step's result, or issues the next call, or (line 793) returns the
\* seasonal estimate.  In the handler (line 161) the result is the snow
\* result and the forecast request is issued (line 1041); in the forecast
\* engine (line 1066) it is the baseline of the forecast, which completes
\* the response.  month records the clock read at line 793 of the
\* handler's run; the estimate that parseTimeValuePairSnowResponse computes
\* at line 952 is dropped at line 816 whatever its month.
ObservationResponse(resp) ==
    LET info == postalInfo[Handler]
        p == IF hpc = "locating" THEN postalCode[Handler] ELSE NoPostalCode
        plan == LocatorPlan(info.lat, info.lon, p)
        done == LocatorStep(plan[locIdx], resp, info.lat, info.lon,
                            IF month = NullNum THEN 0 ELSE month)
        last == locIdx = Len(plan)
        found == done.kind = "return" /\ done.value # Null
    IN
    /\ hpc \in {"locating", "locating2"}
    /\ IF done.kind = "throw" /\ hpc = "locating"
       THEN /\ response' = ServerError
            /\ hpc' = "done"
            /\ locIdx' = 0
            /\ UNCHANGED <<calls, settled, snowResult, dailyData, query, month>>
            /\ UNCHANGED currentSnowDepth
       ELSE IF done.kind = "throw"
       THEN /\ \E m \in ClockMonths :
                   Respond(snowResult, ForecastCatch(Throw, info.lat, m).value)
            /\ locIdx' = 0
            /\ UNCHANGED <<calls, settled, snowResult, dailyData, month>>
            /\ UNCHANGED currentSnowDepth
       ELSE IF ~found /\ ~last
       THEN /\ locIdx' = locIdx + 1
            /\ settled' = Append(settled, "none")
            /\ Log(CallLabel(plan[locIdx + 1]))
            /\ UNCHANGED <<hpc, snowResult, dailyData, query, response, month>>
            /\ UNCHANGED currentSnowDepth
       ELSE /\ locIdx' = 0
            /\ settled' = Append(settled, IF found THEN "found" ELSE "none")
            /\ IF hpc = "locating"
               THEN /\ \E m \in (IF found THEN {month} ELSE Months) :
                          /\ month' = m
                          /\ snowResult' = IF found THEN done.value
                                           ELSE getMockSnowDepthResult(info.lat, m)
                    /\ hpc' = "forecasting"
                    /\ Log("forecast")
                    /\ UNCHANGED <<dailyData, query, response, currentSnowDepth>>
               ELSE /\ \E m \in (IF found THEN {month} ELSE ClockMonths) :
                          /\ currentSnowDepth' =
                                  IF found THEN done.value.depth
                                  ELSE getMockSnowDepthResult(info.lat, m).depth
                          /\ Respond(snowResult,
                                     BuildForecast(dailyData, info.lat, currentSnowDepth'))
                    /\ UNCHANGED <<calls, snowResult, dailyData, month>>
    /\ UNCHANGED <<geocodeCache, pc, postalCode, postalInfo, geoCalls, firstInfo>>
    /\ UNCHANGED <<forecastResp, loopVars>>
    /\ UNCHANGED sideVars

\* The forecast request settles (lines 1041-1066, 1149-1156): the fallback
\* completes the response; parsed samples start getSnowDepth, the second
\* run of the locator, without a postal code.
ForecastResponse(resp) ==
    LET info == postalInfo[Handler]
        continues == ForecastFetched(resp, info.lat, 0).kind = "continue"
    IN
    /\ hpc = "forecasting"
    /\ forecastResp' = resp
    /\ IF continues
       THEN /\ dailyData' = ForecastFetched(resp, info.lat, 0).value
            /\ hpc' = "locating2"
            /\ locIdx' = 1
            /\ settled' = <<>>
            /\ Log(CallLabel(LocatorPlan(info.lat, info.lon, NoPostalCode)[1]))
            /\ UNCHANGED <<query, response>>
       ELSE \E m \in ClockMonths :
                LET done == ForecastCatch(ForecastFetched(resp, info.lat, m), info.lat, m) IN
                IF done.kind = "throw"
                THEN /\ response' = ServerError
                     /\ hpc' = "done"
                     /\ UNCHANGED <<dailyData, locIdx, settled, calls, query>>
                ELSE /\ Respond(snowResult, done.value)
                     /\ UNCHANGED <<dailyData, locIdx, settled, calls>>
    /\ UNCHANGED <<geocodeCache, pc, postalCode, postalInfo, geoCalls, firstInfo>>
    /\ UNCHANGED <<month, snowResult, currentSnowDepth, loopVars>>
    /\ UNCHANGED sideVars

\* The response is sent; the next request may arrive.  The geocode cache
\* lives on.
RequestDone ==
    /\ hpc = "done"
    /\ hpc' = "idle"
    /\ pc' = [pc EXCEPT ![Handler] = "idle"]
    /\ postalCode' = [postalCode EXCEPT ![Handler] = "none"]
    /\ postalInfo' = [postalInfo EXCEPT ![Handler] = Undefined]
    /\ calls' = [calls EXCEPT ![Handler] = <<>>]
    /\ query' = Absent
    /\ month' = NullNum
    /\ locIdx' = 0
    /\ settled' = <<>>
    /\ snowResult' = Null
    /\ dailyData' = Null
    /\ response' = NoResponse
    /\ forecastResp' = Null
    /\ currentSnowDepth' = NullNum
    /\ UNCHANGED <<geocodeCache, geoCalls, firstInfo>>
    /\ UNCHANGED loopVars
    /\ UNCHANGED sideVars

\* ------------------------------------------------------- specifications
\* SpecGeo: NumReq concurrent callers of the geo resolver; they share the
\* geocode cache and interleave at the await of the geocoding request.
InitGeo == InitResolver /\ InitHandler /\ InitLoop /\ InitSide

\* The codes the concurrent callers ask for: the dynamic ones and one static.
GeoSpecCodes == DynamicCodes \cup {"00100"}

NextGeo ==
    \E r \in Reqs :
        \/ \E p \in GeoSpecCodes : Resolve(r, p)
        \/ \E resp \in GeoResponses : GeocodeResponse(r, resp)
        \/ ResolveReturn(r)

SpecGeo == InitGeo /\ [][NextGeo]_vars

\* Spec: the snow-data requests, one at a time (a request shares nothing
\* with another but the geocode cache, whose interleavings SpecGeo covers).
Init == InitResolver /\ InitHandler /\ InitLoop /\ InitSide

\* The postal codes the requests ask for.
RequestCodes == (StaticCodes \ {"99980"}) \cup {"99830"}

Next ==
    \/ \E p \in RequestCodes : GetSnowData(p)
    \/ \E resp \in GeoResponses : GeocodeResponse(Handler, resp)
    \/ PostalInfoResolved
    \/ /\ hpc \in {"locating", "locating2"}
       /\ \E resp \in ObsResponses(postalInfo[Handler].lat, postalInfo[Handler].lon) :
              ObservationResponse(resp)
    \/ \E resp \in ForecastResponses : ForecastResponse(resp)
    \/ RequestDone

Spec == Init /\ [][Next]_vars

\* SpecCalc: the snow load calculator of the handler (lines 162-226) on
\* its own.  The inputs are drawn at the start: the depth the locator
\* returned, the threshold parameter and the forecast samples; Calculate
\* builds the response, Snowfall builds it again for one more cm of snow.
CalcThresholds ==
    { Absent, Text(<<>>), Text(<<"1", "0", "0">>), Text(<<"1", "2", "5">>),
      Text(<<"8", "0", "k", "g">>), Text(<<"1">>), Text(<<"0">>),
      Text(<<"-", "5">>), Text(<<"x">>) }

CalcForecasts ==
    { DailyData(FALSE, <<Bucket(<<-50, -30>>, <<>>), Null, Null>>),
      DailyData(FALSE, <<Bucket(<<5, 20>>, <<30, 30>>), Null, Null>>) }

CalcResponse(depth) ==
    Ok(SnowDataResult(postalCodeMap["70100"],
                      SnowDepthResult(depth, "Asema A", 11, 1),
                      UserThreshold(query),
                      BuildForecast(dailyData, postalCodeMap["70100"].lat, depth)))

InitCalc ==
    /\ InitResolver
    /\ hpc = "idle"
    /\ query \in CalcThresholds
    /\ month = NullNum
    /\ locIdx = 0
    /\ settled = <<>>
    /\ snowResult \in { SnowDepthResult(d, "Asema A", 11, 1) : d \in 0 .. MaxDepthCm }
    /\ dailyData \in CalcForecasts
    /\ response = NoResponse
    /\ forecastResp = Null
    /\ currentSnowDepth = NullNum
    /\ InitLoop
    /\ InitSide

Calculate ==
    /\ response = NoResponse
    /\ response' = CalcResponse(snowResult.depth)
    /\ UNCHANGED <<resolverVars, hpc, query, month, locIdx, settled, snowResult, dailyData>>
    /\ UNCHANGED <<forecastResp, currentSnowDepth, loopVars>>
    /\ UNCHANGED sideVars

Snowfall ==
    /\ response # NoResponse
    /\ snowResult.depth < MaxDepthCm
    /\ snowResult' = [snowResult EXCEPT !.depth = @ + 1]
    /\ response' = CalcResponse(snowResult.depth + 1)
    /\ UNCHANGED <<resolverVars, hpc, query, month, locIdx, settled, dailyData>>
    /\ UNCHANGED <<forecastResp, currentSnowDepth, loopVars>>
    /\ UNCHANGED sideVars

NextCalc == Calculate \/ Snowfall

SpecCalc == InitCalc /\ [][NextCalc]_vars

\* SpecParse: one step of the locator on its own (lines 796-953), on
\* observation documents that hold ties of time and of distance, values
\* at the ends of the range and values that are no number.  The place is
\* Kuopio (two searches) or Kilpisjarvi (two stations, two searches); the
\* series lie on the meridian of the place, 5.6 km to 55.6 km away.
ParseSeries(lat, lon) ==
    { Series("Asema A", Pos(lat + 1000, lon), <<TVP(1, 320)>>),
      Series("Asema B", Pos(lat + 2000, lon), <<TVP(2, 100), TVP(2, 200)>>),
      Series("Asema C", Pos(lat + 3000, lon), <<TVP(1, 4996)>>),
      Series("Asema D", Pos(lat + 500, lon), <<TVP(1, 5000), TVP(2, NaN), TVP(3, -10)>>),
      Series("Asema E", Pos(lat + 5000, lon), <<TVP(3, 50)>>),
      Series("Asema F", Pos(lat - 1000, lon), <<TVP(2, 14), TVP(1, 20)>>),
      Series("", Pos(lat + 700, lon), <<TVP(1, 360)>>),
      Series(NullStr, Pos(lat + 1500, lon), <<TVP(1, 0)>>) }

ParsePlaces == { <<"70100", postalCodeMap["70100"]>>, <<"99130", postalCodeMap["99130"]>> }

InitParse ==
    /\ geocodeCache = [p \in PostalCodes |-> Undefined]
    /\ pc = [r \in Reqs |-> IF r = Handler THEN "resolved" ELSE "idle"]
    /\ calls = [r \in Reqs |-> <<>>]
    /\ geoCalls = [p \in PostalCodes |-> 0]
    /\ firstInfo = [p \in PostalCodes |-> Undefined]
    /\ \E place \in ParsePlaces :
           /\ postalCode = [r \in Reqs |-> IF r = Handler THEN place[1] ELSE "none"]
           /\ postalInfo = [r \in Reqs |-> IF r = Handler THEN place[2] ELSE Undefined]
           /\ locIdx \in DOMAIN LocatorPlan(place[2].lat, place[2].lon, place[1])
           /\ xmlText \in SeqsUpTo(ParseSeries(place[2].lat, place[2].lon), MaxSeries)
    /\ hpc = "parsing"
    /\ query = Absent
    /\ month = NullNum
    /\ settled = <<>>
    /\ snowResult = Null
    /\ dailyData = Null
    /\ response = NoResponse
    /\ forecastResp = Null
    /\ currentSnowDepth = NullNum
    /\ accumulatedSnow = 0
    /\ forecast = <<>>
    /\ thawConditions = <<>>
    /\ InitSide

\* The step's request is answered with the document; the step hands its
\* result, or null, to the loop of the locator.
ParseStep ==
    LET info == postalInfo[Handler]
        plan == LocatorPlan(info.lat, info.lon, postalCode[Handler])
        done == LocatorStep(plan[locIdx], [kind |-> "body", doc |-> xmlText],
                            info.lat, info.lon, 0)
    IN
    /\ hpc = "parsing"
    /\ hpc' = "parsed"
    /\ snowResult' = done.value
    /\ settled' = <<IF done.value # Null THEN "found" ELSE "none">>
    /\ UNCHANGED <<resolverVars, query, month, locIdx, dailyData, response, forecastResp>>
    /\ UNCHANGED currentSnowDepth
    /\ UNCHANGED <<xmlText, accumulatedSnow, forecast, thawConditions>>
    /\ UNCHANGED sideVars

NextParse == ParseStep

SpecParse == InitParse /\ [][NextParse]_vars

\* SpecForecast: the loop of the forecast engine (lines 1069-1148), turn
\* by turn, on parsed samples of every kind of day, seeded with a depth of
\* 0, 3 or 30 cm, south and north of 64 degrees.
LoopBuckets ==
    { Null,
      Bucket(<<>>, <<60>>),
      Bucket(<<-50, -30>>, <<20, 15>>),
      Bucket(<<-20, -10>>, <<10>>),
      Bucket(<<-10, 9>>, <<60>>),
      Bucket(<<4, 4>>, <<60>>),
      Bucket(<<0, 10>>, <<50>>),
      Bucket(<<10, 30>>, <<49>>),
      Bucket(<<30, 50>>, <<10>>),
      Bucket(<<50, 70>>, <<>>) }

LoopSeeds == {0, 3, 30}

LoopPlaces == { postalCodeMap["00100"], postalCodeMap["90100"] }

InitForecast ==
    /\ geocodeCache = [p \in PostalCodes |-> Undefined]
    /\ pc = [r \in Reqs |-> IF r = Handler THEN "resolved" ELSE "idle"]
    /\ postalCode = [r \in Reqs |-> "none"]
    /\ \E info \in LoopPlaces :
           postalInfo = [r \in Reqs |-> IF r = Handler THEN info ELSE Undefined]
    /\ calls = [r \in Reqs |-> <<>>]
    /\ geoCalls = [p \in PostalCodes |-> 0]
    /\ firstInfo = [p \in PostalCodes |-> Undefined]
    /\ hpc = "building"
    /\ query = Absent
    /\ month = NullNum
    /\ locIdx = 0
    /\ settled = <<>>
    /\ snowResult = Null
    /\ \E d1 \in LoopBuckets, d2 \in LoopBuckets, d3 \in LoopBuckets :
           dailyData = DailyData(FALSE, <<d1, d2, d3>>)
    /\ response = NoResponse
    /\ forecastResp = Null
    /\ xmlText = Null
    /\ \E seed \in LoopSeeds : currentSnowDepth = seed /\ accumulatedSnow = seed * 10
    /\ forecast = <<>>
    /\ thawConditions = <<>>
    /\ InitSide

\* One turn of the loop of lines 1072-1142.
ForecastTurn ==
    LET i == Len(forecast) + 1
        turn == ForecastIteration(dailyData, postalInfo[Handler].lat, i, accumulatedSnow)
    IN
    /\ hpc = "building"
    /\ i <= 3
    /\ forecast' = Append(forecast, turn.day)
    /\ accumulatedSnow' = turn.accumulatedSnow
    /\ thawConditions' = thawConditions \o ThawOfDay(dailyData, i)
    /\ UNCHANGED <<resolverVars, hpc, query, month, locIdx, settled, snowResult, dailyData>>
    /\ UNCHANGED <<response, forecastResp, currentSnowDepth, xmlText>>
    /\ UNCHANGED sideVars

NextForecast == ForecastTurn

SpecForecast == InitForecast /\ [][NextForecast]_vars

\* SpecIcon: the loop on a first date that has weather-symbol samples: up
\* to MaxSymbols codes out of clear, partly cloudy, cloudy, showers,
\* snowfall and sleet, in any order, on a day of frost or a mild day, dry
\* or with precipitation.
MaxSymbols == 3

IconCodes == {1, 2, 3, 22, 51, 72}

IconBuckets ==
    { BucketWithSymbols(temps, precip, symbols) :
          temps \in { <<-50, -30>>, <<10, 30>> },
          precip \in { <<>>, <<20>> },
          symbols \in SeqsUpTo(IconCodes, MaxSymbols) }

InitIcon ==
    /\ geocodeCache = [p \in PostalCodes |-> Undefined]
    /\ pc = [r \in Reqs |-> IF r = Handler THEN "resolved" ELSE "idle"]
    /\ postalCode = [r \in Reqs |-> "none"]
    /\ postalInfo = [r \in Reqs |-> IF r = Handler THEN postalCodeMap["00100"] ELSE Undefined]
    /\ calls = [r \in Reqs |-> <<>>]
    /\ geoCalls = [p \in PostalCodes |-> 0]
    /\ firstInfo = [p \in PostalCodes |-> Undefined]
    /\ hpc = "building"
    /\ query = Absent
    /\ month = NullNum
    /\ locIdx = 0
    /\ settled = <<>>
    /\ snowResult = Null
    /\ \E d1 \in IconBuckets : dailyData = DailyData(FALSE, <<d1, Null, Null>>)
    /\ response = NoResponse
    /\ forecastResp = Null
    /\ currentSnowDepth = 0
    /\ xmlText = Null
    /\ accumulatedSnow = 0
    /\ forecast = <<>>
    /\ thawConditions = <<>>
    /\ InitSide

NextIcon == ForecastTurn

SpecIcon == InitIcon /\ [][NextIcon]_vars

\* SpecLoc: the location endpoints (routes.ts lines 257-306) on the
\* storage, called by any signed-in user at any time.  A storage call with
\* two statements may be overtaken between them by the statements of
\* another request.
InitLoc == InitResolver /\ InitHandler /\ InitLoop /\ InitStorage /\ InitPush /\ InitClient

\* createLocation (part_001, lines 99-107) up to its first await: with
\* isDefault it clears the user's defaults and has the insert to come,
\* without it it inserts.
CreateLocation(r, userId, isDefault) ==
    /\ dbOps[r] = Null
    /\ FreshIds(locations) # {}
    /\ IF isDefault
       THEN /\ locations' = UnsetDefaults(locations, userId)
            /\ dbOps' = [dbOps EXCEPT ![r] = PendingInsert(userId, isDefault)]
       ELSE /\ locations' = InsertLocation(locations, userId, isDefault)
            /\ dbOps' = dbOps
    /\ UNCHANGED <<resolverVars, handlerVars, pushVars, clientVars>>

\* Line 105 after the await of line 102.
CreateLocationInsert(r) ==
    /\ dbOps[r] # Null
    /\ dbOps[r].op = "insert"
    /\ FreshIds(locations) # {}
    /\ locations' = InsertLocation(locations, dbOps[r].userId, dbOps[r].isDefault)
    /\ dbOps' = [dbOps EXCEPT ![r] = Null]
    /\ UNCHANGED <<resolverVars, handlerVars, pushVars, clientVars>>

\* PUT /api/locations/:id (lines 270-286): the id is not checked against
\* the user of the session.
UpdateLocation(r, id, patch) ==
    /\ dbOps[r] = Null
    /\ locations' = UpdateRow(locations, id, patch)
    /\ UNCHANGED dbOps
    /\ UNCHANGED <<resolverVars, handlerVars, pushVars, clientVars>>

\* DELETE /api/locations/:id (lines 299-306).
DeleteLocation(r, id) ==
    /\ dbOps[r] = Null
    /\ locations' = DeleteRow(locations, id)
    /\ UNCHANGED dbOps
    /\ UNCHANGED <<resolverVars, handlerVars, pushVars, clientVars>>

\* PUT /api/locations/:id/default (lines 288-297): setDefaultLocation
\* (part_001, lines 122-127) up to its first await.
SetDefaultLocation(r, userId, locationId) ==
    /\ dbOps[r] = Null
    /\ locations' = UnsetDefaults(locations, userId)
    /\ dbOps' = [dbOps EXCEPT ![r] = PendingSetDefault(userId, locationId)]
    /\ UNCHANGED <<resolverVars, handlerVars, pushVars, clientVars>>

\* Line 126 after the await of line 124.
SetDefaultLocationSet(r) ==
    /\ dbOps[r] # Null
    /\ dbOps[r].op = "setDefault"
    /\ locations' = SetDefault(locations, dbOps[r].userId, dbOps[r].locationId)
    /\ dbOps' = [dbOps EXCEPT ![r] = Null]
    /\ UNCHANGED <<resolverVars, handlerVars, pushVars, clientVars>>

NextLoc ==
    \E r \in Reqs :
        \/ \E u \in Users, isDefault \in BOOLEAN : CreateLocation(r, u, isDefault)
        \/ CreateLocationInsert(r)
        \/ \E id \in LocationIds, patch \in LocationPatches : UpdateLocation(r, id, patch)
        \/ \E id \in LocationIds : DeleteLocation(r, id)
        \/ \E u \in Users, id \in LocationIds : SetDefaultLocation(r, u, id)
        \/ SetDefaultLocationSet(r)

SpecLoc == InitLoc /\ [][NextLoc]_vars

\* SpecPush: POST /api/notifications/send (lines 377-447), one request
\* at a time, with any body and with or without the push credentials.
PlayerIds ==
    { Absent, Num(12345), Str(0, ""), Str(31, "short"), Str(32, "player-a"), Str(36, "player-b") }

NotificationTypes ==
    { Absent, Num(1), Str(0, ""), Str(5, "other"), Str(7, "regular"),
      Str(16, "wet-snow-warning") }

PostedLoads == { Absent, Str(3, "100"), Num(-1), Num(0), Num(500), Num(501) }

PostedThresholds == { Absent, Str(3, "100"), Num(49), Num(50), Num(200), Num(201) }

PushEnvs == { [appId |-> a, apiKey |-> k] : a \in BOOLEAN, k \in BOOLEAN }

\* What the push service may answer: fetch rejects, a non-OK status, an
\* OK status.
PushAnswers == {"throw", "status", "ok"}

InitPushSpec ==
    /\ InitResolver /\ InitHandler /\ InitLoop /\ InitStorage /\ InitClient
    /\ pushBody = Null
    /\ pushEnv \in PushEnvs
    /\ pushPc = "idle"
    /\ outbound = Null
    /\ pushResponse = NoResponse

\* Lines 377-436: the request arrives; the handler answers it at once or
\* issues the outbound call.
NotificationsSend(body) ==
    LET answer == SendValidation(body, pushEnv) IN
    /\ pushPc = "idle"
    /\ pushBody' = body
    /\ IF answer # Null
       THEN /\ pushResponse' = answer
            /\ pushPc' = "done"
            /\ outbound' = Null
       ELSE /\ pushResponse' = NoResponse
            /\ pushPc' = "sending"
            /\ outbound' = NotificationPayload(pushEnv.appId, body)
    /\ UNCHANGED pushEnv
    /\ UNCHANGED <<resolverVars, handlerVars, storageVars, clientVars>>

\* Lines 428-451: the outbound call settles.
PushAnswer(answer) ==
    /\ pushPc = "sending"
    /\ pushResponse' = IF answer = "throw" THEN PushServerError
                       ELSE IF answer = "status" THEN SendFailed
                       ELSE PushSuccess
    /\ pushPc' = "done"
    /\ UNCHANGED <<pushBody, pushEnv, outbound>>
    /\ UNCHANGED <<resolverVars, handlerVars, storageVars, clientVars>>

\* The response is sent; the next request may arrive.
PushDone ==
    /\ pushPc = "done"
    /\ pushPc' = "idle"
    /\ pushBody' = Null
    /\ outbound' = Null
    /\ pushResponse' = NoResponse
    /\ UNCHANGED pushEnv
    /\ UNCHANGED <<resolverVars, handlerVars, storageVars, clientVars>>

NextPush ==
    \/ \E type \in NotificationTypes, currentLoad \in PostedLoads,
          alertThreshold \in PostedThresholds, id \in PlayerIds :
           NotificationsSend(NotificationBody(type, currentLoad, alertThreshold, id))
    \/ \E answer \in PushAnswers : PushAnswer(answer)
    \/ PushDone

SpecPush == InitPushSpec /\ [][NextPush]_vars

\* SpecClient: the main screen of the client (part_002, lines 146-249):
\* snow data arriving in Home, the tabs, and the two save buttons of the
\* settings page.  The user has finished the setup (lines 168-180), which
\* stores notificationsEnabled true and no alert threshold.
MaxWarningsInRun == 2

\* Roof type and custom threshold as the setup and the settings page let
\* them be stored (part_005, lines 75-76 and 97-101): a custom threshold of
\* 50..300 with "Oma raja", none otherwise.
ClientRoofs ==
    { <<"Vanhempi omakotitalo", NullNum>>, <<"Omakotitalo (kestava)", NullNum>>,
      <<"Oma raja", 50>>, <<"Oma raja", 300>> }

\* The snow depths (cm) behind the loads the endpoint returns.
ClientDepths == {0, 16, 45, 60, 100, 201}

\* The positions of the alert slider (part_005, lines 273-279) the user
\* moves it to.
SliderValues == {50, 200}

Tabs == {"home", "orders", "settings"}

\* Home.tsx line 74, of the stored user.
Threshold == getEffectiveRoofThreshold(userData.roofType, userData.roofThreshold)

\* The snow data the endpoint may return for the threshold of the query
\* (routes.ts lines 162 and 186-190): a warning needs 60 % of the threshold.
SnowDataFor(threshold) ==
    UNION { { SnowData(CurrentLoad(depth), warning) :
                warning \in { w \in BOOLEAN :
                    w => PercentageAtLeast(CurrentLoad(depth), threshold, 60) } } :
            depth \in ClientDepths }

CountType(notifications, type) ==
    Cardinality({ i \in DOMAIN notifications : notifications[i].type = type })

CapWarnings(n) == IF n > MaxWarningsInRun THEN MaxWarningsInRun ELSE n

InitClientSpec ==
    /\ InitResolver /\ InitHandler /\ InitLoop /\ InitStorage /\ InitPush
    /\ activeTab = "home"
    /\ \E roof \in ClientRoofs : userData = UserData(roof[1], roof[2], NullNum, TRUE)
    /\ data = Null
    /\ playerId = Null
    /\ lastWarningStateRef = "null"
    /\ lastAlertStateRef = FALSE
    /\ sent = <<>>
    /\ warningsInRun = 0
    /\ regularInRun = FALSE
    /\ settingsAlertThreshold = NullNum

\* Home.tsx lines 80-113: the query of the mounted Home delivers snow data
\* (the first fetch, the refetch every six hours, a manual refetch) and the
\* notification effect runs on it.
DataUpdate(d) ==
    LET effect == HomeEffect(d, userData, Threshold, lastWarningStateRef, lastAlertStateRef) IN
    /\ activeTab = "home"
    /\ d \in SnowDataFor(Threshold)
    /\ data' = d
    /\ lastWarningStateRef' = effect.lastWarningStateRef
    /\ lastAlertStateRef' = effect.lastAlertStateRef
    /\ sent' = effect.sent
    /\ warningsInRun' =
           IF d.heavyWetSnowWarning
           THEN CapWarnings(warningsInRun + CountType(effect.sent, "wet-snow-warning"))
           ELSE 0
    /\ regularInRun' =
           IF d.currentLoad >= AlertThreshold(userData, Threshold)
           THEN regularInRun \/ CountType(effect.sent, "regular") > 0
           ELSE FALSE
    /\ UNCHANGED <<activeTab, userData, playerId, settingsAlertThreshold>>
    /\ UNCHANGED <<resolverVars, handlerVars, storageVars, pushVars>>

\* Part_000, lines 26-43: the subscription id of the mounted Home's hook
\* arrives; sendNotification is a new function (line 175) and the effect of
\* Home, which depends on it (Home.tsx line 113), runs again on the same data.
PlayerIdResolved ==
    LET effect == HomeEffect(data, userData, Threshold, lastWarningStateRef, lastAlertStateRef) IN
    /\ activeTab = "home"
    /\ playerId = Null
    /\ playerId' = Str(36, "player-b")
    /\ lastWarningStateRef' = effect.lastWarningStateRef
    /\ lastAlertStateRef' = effect.lastAlertStateRef
    /\ sent' = effect.sent
    /\ warningsInRun' = CapWarnings(warningsInRun + CountType(effect.sent, "wet-snow-warning"))
    /\ regularInRun' = (regularInRun \/ CountType(effect.sent, "regular") > 0)
    /\ UNCHANGED <<activeTab, userData, data, settingsAlertThreshold>>
    /\ UNCHANGED <<resolverVars, handlerVars, storageVars, pushVars>>

\* Part_002, lines 238-249 and 252-290: the user taps a tab.  Only the
\* page of the active tab is mounted: leaving "home" unmounts Home with its
\* refs and its hook state, entering it mounts a new Home (lines 77-78 and
\* part_000, lines 20-25), whose query hands it the cached data at once, so
\* that the effect runs on it.  Settings takes its alert threshold from the
\* stored user at its mount (part_005, lines 68-69).
SwitchTab(tab) ==
    LET effect == HomeEffect(data, userData, Threshold, "null", FALSE) IN
    /\ tab # activeTab
    /\ activeTab' = tab
    /\ playerId' = Null
    /\ IF tab = "home"
       THEN /\ lastWarningStateRef' = effect.lastWarningStateRef
            /\ lastAlertStateRef' = effect.lastAlertStateRef
            /\ sent' = effect.sent
            /\ warningsInRun' =
                   CapWarnings(warningsInRun + CountType(effect.sent, "wet-snow-warning"))
            /\ regularInRun' = (regularInRun \/ CountType(effect.sent, "regular") > 0)
       ELSE /\ lastWarningStateRef' = "null"
            /\ lastAlertStateRef' = FALSE
            /\ sent' = <<>>
            /\ UNCHANGED <<warningsInRun, regularInRun>>
    /\ settingsAlertThreshold' =
           IF tab # "settings" THEN NullNum
           ELSE IF Truthy(userData.alertThreshold) THEN userData.alertThreshold
           ELSE defaultAlertThreshold(Threshold)
    /\ UNCHANGED <<userData, data>>
    /\ UNCHANGED <<resolverVars, handlerVars, storageVars, pushVars>>

\* Part_005, lines 273-279: the user moves the alert slider.
SetAlertThreshold(value) ==
    /\ activeTab = "settings"
    /\ value # settingsAlertThreshold
    /\ settingsAlertThreshold' = value
    /\ sent' = <<>>
    /\ UNCHANGED <<activeTab, userData, data, playerId, lastWarningStateRef,
                   lastAlertStateRef, warningsInRun, regularInRun>>
    /\ UNCHANGED <<resolverVars, handlerVars, storageVars, pushVars>>

\* Part_005, lines 140-145 and part_002, lines 182-199: the notification
\* settings are saved, the switch as the user left it.
HandleSave(notificationsEnabled) ==
    /\ activeTab = "settings"
    /\ userData' = [userData EXCEPT !.alertThreshold = settingsAlertThreshold,
                                    !.notificationsEnabled = notificationsEnabled]
    /\ userData' # userData
    /\ sent' = <<>>
    /\ UNCHANGED <<activeTab, data, playerId, lastWarningStateRef, lastAlertStateRef,
                   warningsInRun, regularInRun, settingsAlertThreshold>>
    /\ UNCHANGED <<resolverVars, handlerVars, storageVars, pushVars>>

\* Part_005, lines 78-106 and part_002, lines 182-213: roof type and
\* custom threshold are saved.  The query key of Home holds the threshold
\* (Home.tsx line 81), so a new threshold has no data yet; a new roof type
\* removes the queries and ends on the home tab, where a new Home mounts
\* without data.
HandleSaveLocation(roofType, roofThreshold) ==
    /\ activeTab = "settings"
    /\ <<roofType, roofThreshold>> # <<userData.roofType, userData.roofThreshold>>
    /\ userData' = [userData EXCEPT !.roofType = roofType, !.roofThreshold = roofThreshold]
    /\ data' = Null
    /\ IF roofType # userData.roofType
       THEN /\ activeTab' = "home"
            /\ settingsAlertThreshold' = NullNum
       ELSE UNCHANGED <<activeTab, settingsAlertThreshold>>
    /\ sent' = <<>>
    /\ UNCHANGED <<playerId, lastWarningStateRef, lastAlertStateRef,
                   warningsInRun, regularInRun>>
    /\ UNCHANGED <<resolverVars, handlerVars, storageVars, pushVars>>

NextClient ==
    \/ \E load \in { CurrentLoad(depth) : depth \in ClientDepths }, warning \in BOOLEAN :
           DataUpdate(SnowData(load, warning))
    \/ PlayerIdResolved
    \/ \E tab \in Tabs : SwitchTab(tab)
    \/ \E value \in SliderValues : SetAlertThreshold(value)
    \/ \E notificationsEnabled \in BOOLEAN : HandleSave(notificationsEnabled)
    \/ \E roof \in ClientRoofs : HandleSaveLocation(roof[1], roof[2])

SpecClient == InitClientSpec /\ [][NextClient]_vars

\* ------------------------------------------------------------- properties
\* The handler's log and what it shows.
HandlerLog == calls[Handler]
ResolverLabels == {"cache_read", "geocode", "cache_write"}
IsObsLabel(l) == l \notin ResolverLabels \cup {"forecast"}
Logged(l) == \E i \in DOMAIN HandlerLog : HandlerLog[i] = l
ForecastAt == IF Logged("forecast")
              THEN CHOOSE i \in DOMAIN HandlerLog : HandlerLog[i] = "forecast"
              ELSE Len(HandlerLog) + 1
\* The observation calls of the handler's run of the locator, and of the
\* forecast engine's run.
Run1 == SelectSeq(SubSeq(HandlerLog, 1, ForecastAt - 1), IsObsLabel)
Run2 == SubSeq(HandlerLog, ForecastAt + 1, Len(HandlerLog))
IsPrefix(a, b) == Len(a) <= Len(b) /\ SubSeq(b, 1, Len(a)) = a
AllNone(q) == \A i \in DOMAIN q : q[i] = "none"

\* The body of a 200 response is a snow-data result.
IsSnowDataResult(b) ==
    /\ b.status \in {"safe", "moderate", "critical"}
    /\ b.currentLoad \in Nat
    /\ b.snowDepth \in Nat
    /\ b.heavyWetSnowWarning \in BOOLEAN
    /\ b.isWithinServiceArea \in BOOLEAN

\* C1: whatever the geocoding, observation and forecast services answer
\* (a result, a non-OK status, an exception, a malformed or empty body),
\* the handler never answers 500, and a finished request has answered
\* either a snow-data result or postal_code_not_found.
C1_NoPropagatedFault ==
    /\ response.status # 500
    /\ hpc = "done" =>
           \/ response = NotFound
           \/ response.status = 200 /\ IsSnowDataResult(response.body)

\* A request whose geocoding gave coordinates that are no numbers, whose
\* observation calls all gave nothing and whose forecast call failed, has
\* been answered with a result.
C1_Witness ==
    /\ hpc = "done"
    /\ response.status = 200
    /\ IsNaN(postalInfo[Handler].lat)
    /\ response.body.stationInfo.name = NullStr
    /\ dailyData = Null
    /\ Logged("geocode")

\* C2: a finished request has answered postal_code_not_found exactly when
\* the resolver gave no location, that is when the postal code is not in
\* the static table and geocoding, or the cache, says null; and then the
\* request has issued no observation call and no forecast call.
C2_NotFoundExactly ==
    hpc = "done" =>
        LET p == postalCode[Handler]
            unresolvable == p \notin StaticCodes /\ geocodeCache[p] = Null
        IN  /\ (response = NotFound) <=> unresolvable
            /\ (response = NotFound) <=> (postalInfo[Handler] = Null)
            /\ response = NotFound =>
                   \A i \in DOMAIN HandlerLog : HandlerLog[i] \in ResolverLabels

\* A request was answered postal_code_not_found after its own geocoding
\* lookup found nothing.
C2_Witness ==
    /\ hpc = "done"
    /\ response = NotFound
    /\ HandlerLog = <<"cache_read", "geocode", "cache_write">>

\* C3: for a postal code that is not in the static table, at most one
\* geocoding lookup is ever issued by requests that follow one another;
\* once it has completed the cache holds its result, and every resolve of
\* the code returns that result.
C3_ResolveIdempotent ==
    \A p \in DynamicCodes :
        /\ geoCalls[p] <= 1
        /\ firstInfo[p] # Undefined =>
               /\ geocodeCache[p] = firstInfo[p]
               /\ (postalCode[Handler] = p /\ pc[Handler] = "resolved")
                      => postalInfo[Handler] = firstInfo[p]

\* A later request found the cached miss: not found, without a lookup.
C3_Witness ==
    /\ hpc = "done"
    /\ postalCode[Handler] = "99830"
    /\ firstInfo["99830"] = Null
    /\ HandlerLog = <<"cache_read">>
    /\ response = NotFound

\* C4: the geocode cache is append-only under concurrent requests: a
\* written entry never changes its value.
C4_CacheAppendOnly ==
    [][\A p \in PostalCodes :
           geocodeCache[p] # Undefined => geocodeCache'[p] = geocodeCache[p]]_vars

\* C5: a request for a postal code of the static table resolves to the
\* table's entry (00100 to 60.1699, 24.9384, Helsinki) and its log shows no
\* read of the cache, no geocoding call and no write of the cache,
\* whatever the cache holds.
C5_StaticResolve ==
    (hpc # "idle" /\ postalCode[Handler] \in StaticCodes) =>
        /\ postalInfo[Handler] = postalCodeMap[postalCode[Handler]]
        /\ postalCode[Handler] = "00100" =>
               postalInfo[Handler] = PostalCodeInfo(601699, 249384, "Helsinki")
        /\ \A i \in DOMAIN HandlerLog : HandlerLog[i] \notin ResolverLabels
        /\ geoCalls[postalCode[Handler]] = 0
        /\ geocodeCache[postalCode[Handler]] = Undefined

\* 00100 is resolved while the cache holds an entry.
C5_Witness ==
    /\ hpc = "locating"
    /\ postalCode[Handler] = "00100"
    /\ postalInfo[Handler] = PostalCodeInfo(601699, 249384, "Helsinki")
    /\ geocodeCache["99830"] # Undefined
    /\ HandlerLog = <<"bbox25">>

\* The order of the locator's calls for a place: the override stations
\* that apply, in list order, then the 25 km and the 50 km search.
ExpectedOrder(lat, lon, p) ==
    (IF KilpisjarviApplies(lat, lon, p) THEN <<"102016", "102017">> ELSE <<>>)
    \o (IF InariIvaloApplies(lat, lon, p) THEN <<"101784", "101885", "102003">> ELSE <<>>)
    \o <<"bbox25", "bbox50">>

LocatorRunning == hpc \in {"locating", "locating2"}
InSecondRun == hpc = "locating2" \/ (hpc = "done" /\ dailyData # Null)
CurrentRun == IF InSecondRun THEN Run2 ELSE Run1

\* C6: the calls of a run of the locator are an initial part of the fixed
\* order; a call is issued only after every earlier step of the run has
\* handed over nothing, so a step that found a station is the last call of
\* its run and the 50 km search follows only a 25 km search without a station.
C6_LocatorOrder ==
    (hpc \in {"locating", "forecasting", "locating2", "done"} /\ response # NotFound) =>
        LET info == postalInfo[Handler] IN
        /\ IsPrefix(Run1, ExpectedOrder(info.lat, info.lon, postalCode[Handler]))
        /\ IsPrefix(Run2, ExpectedOrder(info.lat, info.lon, NoPostalCode))
        /\ Len(settled) = IF LocatorRunning THEN Len(CurrentRun) - 1 ELSE Len(CurrentRun)
        /\ \A i \in DOMAIN settled : i < Len(CurrentRun) => settled[i] = "none"

\* In Kilpisjarvi the first override station gave nothing and the second
\* a measurement: the run ended there, without a search.
C6_Witness ==
    /\ hpc = "forecasting"
    /\ postalCode[Handler] = "99130"
    /\ Run1 = <<"102016", "102017">>
    /\ settled = <<"none", "found">>

\* The seasonal estimate by latitude band and month.
SeasonalEstimate(lat, m) ==
    LET row == IF ~IsNaN(lat) /\ lat > 680000 THEN <<25, 15, 5>>
               ELSE IF ~IsNaN(lat) /\ lat > 660000 THEN <<15, 8, 2>>
               ELSE IF ~IsNaN(lat) /\ lat > 640000 THEN <<10, 5, 0>>
               ELSE IF ~IsNaN(lat) /\ lat > 620000 THEN <<8, 3, 0>>
               ELSE <<3, 0, 0>>
    IN  IF m \in {10, 11, 0, 1, 2} THEN row[1]
        ELSE IF m \in {2, 3} THEN row[2]
        ELSE row[3]

C9_LoadOfDepth ==
    /\ [](response.status = 200 =>
            LET d == response.body.snowDepth
                l == response.body.currentLoad
            IN  5 * d - 1 < 2 * l /\ 2 * l <= 5 * d + 1)
    /\ [][(response.status = 200 /\ response'.status = 200
               /\ response.body.snowDepth <= response'.body.snowDepth
               /\ response'.body.snowDepth < 500)
            => response.body.currentLoad <= response'.body.currentLoad]_vars

\* 499 cm of snow: 1248 kg/m2, the half of 1247.5 rounded up.
C9_Witness ==
    /\ response.status = 200
    /\ response.body.snowDepth = 499
    /\ response.body.currentLoad = 1248

\* C10: a result carries the heavy wet snow warning exactly when its load
\* is at least 60 % of its threshold and its forecast has a thaw day.
C10_HeavyWetSnowWarning ==
    response.status = 200 =>
        LET l == response.body.currentLoad
            t == response.body.threshold
            atLeast60 == ~IsNaN(t) /\ t > 0 /\ l * 100 >= 60 * t
            thawDay == Len(response.body.thawConditions) >= 1
        IN  /\ response.body.heavyWetSnowWarning <=> (atLeast60 /\ thawDay)
            /\ (l = 90 /\ t = 140 /\ thawDay) => response.body.heavyWetSnowWarning
            /\ (l = 90 /\ t = 140 /\ ~thawDay) => ~response.body.heavyWetSnowWarning
            /\ (l = 80 /\ t = 140 /\ thawDay) => ~response.body.heavyWetSnowWarning

\* A load of 80 on the threshold 140 with a thaw day: no warning.
C10_Witness ==
    /\ response.status = 200
    /\ response.body.currentLoad = 80
    /\ response.body.threshold = 140
    /\ Len(response.body.thawConditions) = 1
    /\ ~response.body.heavyWetSnowWarning

\* The thaw condition recorded for the date i days ahead, if any.
Recorded(i) == \E k \in DOMAIN thawConditions : thawConditions[k].date = i

\* C11: a day of the forecast is recorded as a thaw condition exactly when
\* the maximum of the day's temperature samples is at least 1 degree and
\* the sum of its precipitation samples is at least 5 mm; a maximum of 0.9
\* degrees or a sum of 4.9 mm records nothing.
C11_ThawExactly ==
    \A i \in DOMAIN forecast :
        LET dayData == dailyData.days[i] IN
        Recorded(i) <=> (/\ dayData # Null
                         /\ dayData.temps # <<>>
                         /\ Max(dayData.temps) >= 10
                         /\ Sum(dayData.precip) >= 50)

\* C12: the forecast of every result has exactly 3 days, for the dates 1,
\* 2 and 3 days ahead in this order, whether the forecast service answered
\* with samples of all dates, of some, of other dates, with none, with a
\* non-OK status or not at all.
C12_ThreeForecastDays ==
    response.status = 200 =>
        /\ Len(response.body.forecast) = 3
        /\ \A i \in 1 .. 3 : response.body.forecast[i].date = i

\* The forecast service gave samples of the first date only: the first
\* day is built from them, the other two are synthesized.
C12_Witness ==
    /\ response.status = 200
    /\ forecastResp.kind = "body"
    /\ dailyData # Null
    /\ dailyData.days = <<Bucket(<<-50, -30>>, <<>>), Null, Null>>
    /\ Len(response.body.forecast) = 3
    /\ response.body.forecast[1].maxTemp = -3
    /\ response.body.forecast[3].date = 3
    /\ response.body.forecast[3].precipType = "none"

\* The forecast call of the request failed: fetch or text() threw, the
\* status was not OK, a sample's time was no date, or the body held no
\* sample.
ForecastFailed ==
    /\ forecastResp # Null
    /\ \/ forecastResp.kind \in {"throw", "status", "textfail"}
       \/ /\ forecastResp.kind = "body"
          /\ \/ forecastResp.doc.badTime
             \/ /\ ~forecastResp.doc.other
                /\ \A i \in 1 .. 3 : forecastResp.doc.days[i] = Null

\* C13: a request whose forecast call failed is answered with a result
\* that carries the seasonal synthetic forecast of the place and of the
\* month, no thaw condition and no heavy wet snow warning, whatever its
\* load.
C13_FailedForecastFallsBack ==
    (hpc = "done" /\ ForecastFailed) =>
        /\ response.status = 200
        /\ \E m \in Months :
               /\ month # NullNum => m = month
               /\ response.body.forecast = getFallbackForecast(postalInfo[Handler].lat, m)
        /\ response.body.thawConditions = <<>>
        /\ ~response.body.heavyWetSnowWarning

\* The forecast service answered with a non-OK status while the load is
\* 90 % of the threshold: no warning.
C13_Witness ==
    /\ hpc = "done"
    /\ forecastResp = [kind |-> "status"]
    /\ response.status = 200
    /\ response.body.currentLoad = 90
    /\ response.body.threshold = 100
    /\ response.body.forecast[1].precipType \in {"snow", "none"}
    /\ ~response.body.heavyWetSnowWarning

\* The upstream calls in the handler's log: geocoding, station and search
\* queries of the observation service, the forecast query.
IsUpstreamLabel(l) == l \notin {"cache_read", "cache_write"}

\* C14: within one request no upstream call is issued twice: the
\* geocoding call, the query of each station, the 25 km search, the 50 km
\* search and the forecast call appear at most once in the request's log.
C14_NoCallTwice ==
    \A i \in DOMAIN HandlerLog : \A j \in DOMAIN HandlerLog :
        (i # j /\ IsUpstreamLabel(HandlerLog[i])) => HandlerLog[i] # HandlerLog[j]

\* C15 as stated: in every result isWithinServiceArea is true exactly
\* when the distance that the result reports is at most 80 km.
C15_ServiceAreaByReportedDistance ==
    response.status = 200 =>
        (response.body.isWithinServiceArea <=> Le(response.body.distanceFromKuopio, 80))

\* C15, amended: in every result isWithinServiceArea is true exactly when
\* the distance of the place from the reference point, before it is
\* rounded for the report, is at most 80 km; so a place within the area
\* reports at most 80 km and a place that reports less than 80 km is
\* within the area.
C15_ServiceAreaByDistance ==
    response.status = 200 =>
        LET info == postalInfo[Handler]
            metres == calculateDistance(info.lat, info.lon,
                                        KUOPIO_CENTER.lat, KUOPIO_CENTER.lon)
            reported == response.body.distanceFromKuopio
        IN  /\ response.body.isWithinServiceArea <=> (~IsNaN(metres) /\ metres <= 80000)
            /\ response.body.isWithinServiceArea => Le(reported, 80)
            /\ Lt(reported, 80) => response.body.isWithinServiceArea

\* A place 80.2 km from the reference point: the result reports 80 km and
\* is outside the service area.
C15_Witness ==
    /\ response.status = 200
    /\ postalInfo[Handler].lat = 636146
    /\ response.body.distanceFromKuopio = 80
    /\ ~response.body.isWithinServiceArea

\* The step of the locator that SpecParse runs, and what a series of the
\* document is to it.
ParsedStep ==
    LocatorPlan(postalInfo[Handler].lat, postalInfo[Handler].lon, postalCode[Handler])[locIdx]
DistanceTo(s) ==
    calculateDistance(postalInfo[Handler].lat, postalInfo[Handler].lon, s.pos.lat, s.pos.lon)
InRange(v) == ~IsNaN(v) /\ 0 <= v /\ v < 5000
HasValidMeasurement(s) == \E k \in DOMAIN s.tvps : InRange(s.tvps[k].value)
NameOf(s) == IF s.name = NullStr THEN "Tuntematon asema" ELSE s.name
\* The series of the document that lie within R km and have a valid
\* measurement.
Qualifying(R) ==
    { i \in DOMAIN xmlText :
          /\ xmlText[i].pos # Null
          /\ DistanceTo(xmlText[i]) <= R * 1000
          /\ HasValidMeasurement(xmlText[i]) }

\* C16: the station that a search with radius R returns is a series of
\* the document within R km that has a valid measurement, and no series
\* of the document within R km with a valid measurement is strictly
\* closer, wherever the series stand in the document; when no series is
\* within R km with a valid measurement the search returns nothing.
C16_ClosestStationInRadius ==
    (hpc = "parsed" /\ ParsedStep.kind = "bbox") =>
        LET R == ParsedStep.radiusKm IN
        /\ snowResult # Null =>
               \E i \in Qualifying(R) :
                   /\ snowResult.stationName = NameOf(xmlText[i])
                   /\ snowResult.stationDistance = RoundKm(DistanceTo(xmlText[i]))
                   /\ \A j \in Qualifying(R) :
                          DistanceTo(xmlText[j]) >= DistanceTo(xmlText[i])
        /\ Qualifying(R) = {} => snowResult = Null

\* Of two stations within 25 km the second in the document is the closer
\* one, 11 km away: it is returned.
C16_Witness ==
    /\ hpc = "parsed"
    /\ ParsedStep = Bbox(25)
    /\ Len(xmlText) = 2
    /\ xmlText[1].name = "Asema B"
    /\ xmlText[2].name = "Asema A"
    /\ snowResult # Null
    /\ snowResult.stationName = "Asema A"
    /\ snowResult.stationDistance = 11

\* The valid measurements of a sequence that carry its latest time, by
\* their places in the sequence.
LatestValid(tvps) ==
    { k \in DOMAIN tvps :
          /\ InRange(tvps[k].value)
          /\ \A j \in DOMAIN tvps : InRange(tvps[j].value) => tvps[j].time <= tvps[k].time }
FirstOf(S) == CHOOSE k \in S : \A j \in S : k <= j
LastOf(S) == CHOOSE k \in S : \A j \in S : k >= j
\* The result of the step reports the measurement at place k of tvps.
Reports(tvps, k) ==
    /\ snowResult.updatedAt = tvps[k].time
    /\ snowResult.depth = MathRound(tvps[k].value, 10)
\* The measurements that the result of the step was taken from: those of
\* the whole document for a station query, those of a series within the
\* radius that carries the result's name and distance for a search.
ResultSources ==
    IF ParsedStep.kind = "station" THEN { AllTVPs(xmlText) }
    ELSE { xmlText[i].tvps : i \in
             { q \in Qualifying(ParsedStep.radiusKm) :
                   /\ snowResult.stationName = NameOf(xmlText[q])
                   /\ snowResult.stationDistance = RoundKm(DistanceTo(xmlText[q])) } }

\* C17 as stated: the result of a step reports the valid measurement with
\* the latest time, and of several valid measurements with that time the
\* one that stands last in the document.
C17_LatestLastWins ==
    (hpc = "parsed" /\ snowResult # Null) =>
        \E tvps \in ResultSources :
            /\ LatestValid(tvps) # {}
            /\ Reports(tvps, LastOf(LatestValid(tvps)))

\* C17, amended: the result of a step reports the valid measurement with
\* the latest time, and of several valid measurements with that time the
\* one that stands first in the document.
C17_LatestFirstWins ==
    (hpc = "parsed" /\ snowResult # Null) =>
        \E tvps \in ResultSources :
            /\ LatestValid(tvps) # {}
            /\ Reports(tvps, FirstOf(LatestValid(tvps)))

\* A series holds 10.0 cm and then 20.0 cm for the same time: the result
\* reports 10 cm.
C17_Witness ==
    /\ hpc = "parsed"
    /\ ParsedStep = Bbox(25)
    /\ xmlText = <<Series("Asema B",
                          Pos(postalInfo[Handler].lat + 2000, postalInfo[Handler].lon),
                          <<TVP(2, 100), TVP(2, 200)>>)>>
    /\ snowResult # Null
    /\ snowResult.depth = 10
    /\ snowResult.updatedAt = 2

\* C18 as stated: a depth that a step reports with a station is the
\* rounded value of a measurement that is a number in [0, 500), and lies
\* in [0, 500) itself.
C18_DepthBelow500 ==
    (hpc = "parsed" /\ snowResult # Null) =>
        /\ \E tvps \in ResultSources : \E k \in DOMAIN tvps :
               InRange(tvps[k].value) /\ Reports(tvps, k)
        /\ 0 <= snowResult.depth /\ snowResult.depth < 500

\* C18, amended: a depth that a step reports with a station is the
\* rounded value of a measurement that is a number in [0, 500), and lies
\* in [0, 500]: values from 499.5 on round to 500.
C18_DepthOfValidMeasurement ==
    (hpc = "parsed" /\ snowResult # Null) =>
        /\ \E tvps \in ResultSources : \E k \in DOMAIN tvps :
               InRange(tvps[k].value) /\ Reports(tvps, k)
        /\ 0 <= snowResult.depth /\ snowResult.depth <= 500

\* The only station within 50 km measured 499.6 cm: the reported depth is
\* 500 cm.
C18_Witness ==
    /\ hpc = "parsed"
    /\ ParsedStep = Bbox(50)
    /\ snowResult # Null
    /\ snowResult.stationName = "Asema C"
    /\ snowResult.depth = 500

\* The date i days ahead has temperature samples: its day is built from
\* the samples.
BuiltFromSamples(i) == dailyData.days[i] # Null /\ dailyData.days[i].temps # <<>>

AccumulatedByRule ==
    LET i == Len(forecast')
        d == forecast'[i]
        p == IF BuiltFromSamples(i) THEN Sum(dailyData.days[i].precip) ELSE 0
        grows == BuiltFromSamples(i) /\ d.temperature < 0 /\ p > 0
        melts == BuiltFromSamples(i) /\ ~grows /\ d.temperature > 2
        melted == accumulatedSnow - (d.temperature - 2) * 20
    IN  /\ grows => accumulatedSnow' = accumulatedSnow + p
        /\ (melts /\ melted >= 0) => accumulatedSnow' = melted
        /\ (melts /\ melted < 0) => accumulatedSnow' = 0
        /\ (~grows /\ ~melts) => accumulatedSnow' = accumulatedSnow
        /\ 2 * accumulatedSnow' - 10 < 20 * d.snowDepth
        /\ 20 * d.snowDepth <= 2 * accumulatedSnow' + 10

\* C20: over the days of the forecast the accumulated depth starts at its
\* seed and changes day by day: a day with an average below 0 and
\* precipitation adds the day's precipitation sum; else a day with an
\* average above 2 takes off (average - 2) * 2, not below 0; any other
\* day, a synthesized one too, leaves it as it is.  Each day reports the
\* accumulated depth after it, rounded; with a seed of 0 or more no
\* reported depth is below 0.
C20_DepthProjection ==
    /\ [](accumulatedSnow >= 0 /\ \A i \in DOMAIN forecast : forecast[i].snowDepth >= 0)
    /\ [][Len(forecast') = Len(forecast) + 1 => AccumulatedByRule]_vars

\* From a seed of 3 cm: a day of frost with 3.5 mm gives 6.5, reported as
\* 7 cm; a day of 6 degrees takes off 8 cm and ends at 0; the day without
\* samples stays at 0.
C20_Witness ==
    /\ Len(forecast) = 3
    /\ dailyData.days = <<Bucket(<<-50, -30>>, <<20, 15>>), Bucket(<<50, 70>>, <<>>), Null>>
    /\ forecast[1].snowDepth = 7
    /\ forecast[2].snowDepth = 0
    /\ forecast[3].snowDepth = 0
    /\ accumulatedSnow = 0


\* The day the loop pushes for a date that it does not build from samples
\* (lines 1126-1140), but for its depth.
IsSynthesized(d) ==
    LET defaultTemp == IF Gt(postalInfo[Handler].lat, 640000) THEN -8 ELSE -3 IN
    /\ d.minTemp = defaultTemp - 3
    /\ d.maxTemp = defaultTemp + 2
    /\ d.temperature = defaultTemp
    /\ d.precipAmount = 0
    /\ d.precipType = "none"
    /\ d.icon = "cloudy"

\* C21 as amended: a date of the forecast is built from its samples exactly
\* when it has a temperature sample, and then its precipAmount is the sum
\* of its precipitation samples; every other date, one with precipitation
\* samples only too, gets the synthesized day: default temperatures, zero
\* precipitation, type none, icon cloudy.
C21_BuiltFromTemperatureSamples ==
    \A i \in DOMAIN forecast :
        LET dayData == dailyData.days[i]
            d == forecast[i]
        IN  IF dayData # Null /\ dayData.temps # <<>>
            THEN /\ d.precipAmount = Sum(dayData.precip)
                 /\ d.minTemp = MathRound(Min(dayData.temps), 10)
                 /\ d.maxTemp = MathRound(Max(dayData.temps), 10)
            ELSE IsSynthesized(d)

\* C21 as stated: a date with a sample of any kind, temperature or
\* precipitation, reports the sum of its precipitation samples.
C21_BuiltFromAnySample ==
    \A i \in DOMAIN forecast :
        LET dayData == dailyData.days[i] IN
        (dayData # Null /\ (dayData.temps # <<>> \/ dayData.precip # <<>>))
            => forecast[i].precipAmount = Sum(dayData.precip)

\* A date with 6.0 mm of precipitation and no temperature is synthesized,
\* a date of frost with 2.0 and 1.5 mm reports 3.5 mm, a date without
\* samples is synthesized.
C21_Witness ==
    /\ Len(forecast) = 3
    /\ dailyData.days = <<Bucket(<<>>, <<60>>), Bucket(<<-50, -30>>, <<20, 15>>), Null>>
    /\ IsSynthesized(forecast[1])
    /\ forecast[2].precipAmount = 35
    /\ IsSynthesized(forecast[3])


\* The codes that occur most often among the symbol samples, and the index
\* at which a code is first seen.
MostFrequent(symbols) ==
    LET seen == { symbols[k] : k \in DOMAIN symbols } IN
    { c \in seen : \A d \in seen : CountOf(symbols, c) >= CountOf(symbols, d) }

FirstSeenAt(symbols, c) ==
    CHOOSE k \in DOMAIN symbols :
        symbols[k] = c /\ \A l \in DOMAIN symbols : symbols[l] = c => k <= l

\* The icon that the table of the icons gives for the code chosen from the
\* day's symbol samples: 0 without samples.
IconFor(d, symbols, chosen) ==
    d.icon = getWeatherIconFromSymbol(IF symbols = <<>> THEN 0 ELSE chosen,
                                      d.temperature, d.precipAmount)

\* C23 as amended: the icon of a day built from samples is that of its
\* most frequent weather-symbol code, of the numerically smallest one
\* where several codes share the highest count; without symbol samples the
\* code is 0 and the icon follows precipitation and temperature: snow for
\* precipitation below 0 degrees, rain for other precipitation, cloudy
\* for none.
C23_IconOfSmallestMostFrequent ==
    \A i \in DOMAIN forecast :
        BuiltFromSamples(i) =>
            LET symbols == dailyData.days[i].symbols
                d == forecast[i]
                least == CHOOSE c \in MostFrequent(symbols) :
                             \A e \in MostFrequent(symbols) : c <= e
            IN  /\ IconFor(d, symbols, least)
                /\ symbols = <<>> =>
                       d.icon = IF d.precipAmount > 0 /\ d.temperature < 0 THEN "snow"
                                ELSE IF d.precipAmount > 0 THEN "rain"
                                ELSE "cloudy"

\* C23 as stated: where several codes share the highest count, the icon
\* is that of the one seen first among the samples.
C23_IconOfFirstSeenMostFrequent ==
    \A i \in DOMAIN forecast :
        BuiltFromSamples(i) =>
            LET symbols == dailyData.days[i].symbols
                first == CHOOSE c \in MostFrequent(symbols) :
                             \A e \in MostFrequent(symbols) :
                                 FirstSeenAt(symbols, c) <= FirstSeenAt(symbols, e)
            IN  IconFor(forecast[i], symbols, first)

\* Snowfall (51) seen before clear (1), once each: the day shows the sun.
C23_Witness ==
    /\ Len(forecast) >= 1
    /\ dailyData.days[1] = BucketWithSymbols(<<-50, -30>>, <<20>>, <<51, 1>>)
    /\ forecast[1].icon = "sunny"


\* The days of the forecast of the response, and those the loop has pushed.
ForecastDays ==
    (IF response.status = 200
     THEN { response.body.forecast[i] : i \in DOMAIN response.body.forecast }
     ELSE {})
    \cup { forecast[i] : i \in DOMAIN forecast }

\* C29: every day of a forecast has its average temperature between its
\* lowest and its highest: a day aggregated from samples, a day synthesized
\* for a date without them, and a day of the seasonal fallback.
C29_TemperatureBetweenMinAndMax ==
    \A d \in ForecastDays : d.minTemp <= d.temperature /\ d.temperature <= d.maxTemp

\* A response with a day of frost (-5, -4, -3), a day from 0.5 to 2.0
\* degrees (1, 1, 2) and a synthesized day (-6, -3, -1).
C29_Witness ==
    /\ response.status = 200
    /\ dailyData # Null
    /\ dailyData.days = <<Bucket(<<-50, -30>>, <<>>), Bucket(<<5, 20>>, <<30, 30>>), Null>>
    /\ response.body.forecast[1].temperature = -4
    /\ response.body.forecast[2].minTemp = 1
    /\ response.body.forecast[2].temperature = 1
    /\ response.body.forecast[2].maxTemp = 2
    /\ response.body.forecast[3].temperature \in {-3, -8}


\* C22: when a request answers with a forecast built from samples, the
\* depth that seeded the projection (line 1070) is the depth the response
\* reports as snowDepth (line 211).
C22_SeedIsReportedDepth ==
    (hpc = "done" /\ response.status = 200 /\ currentSnowDepth # NullNum)
        => currentSnowDepth = response.body.snowDepth


\* The stationInfo of a 200 response as the client reads it.
StationInfoJson ==
    [name |-> response.body.stationInfo.name,
     distance |-> JsonNumber(response.body.stationInfo.distance),
     updatedAgo |-> response.body.stationInfo.updatedAgo]

\* C30: in every 200 response the name, the distance and updatedAgo of
\* stationInfo are all null or all not null: not null when the depth is a
\* station's observation, null when it is the seasonal estimate.
C30_StationInfoTogether ==
    response.status = 200 =>
        LET info == StationInfoJson
            observed == snowResult.stationName # NullStr
        IN  IF observed
            THEN info.name # NullStr /\ info.distance # NullNum /\ info.updatedAgo # NullStr
            ELSE info.name = NullStr /\ info.distance = NullNum /\ info.updatedAgo = NullStr


\* The locations of a user that are marked as the default.
DefaultsOf(userId) ==
    { id \in LocationIds :
          IsRow(locations[id]) /\ locations[id].userId = userId /\ locations[id].isDefault }

\* The setDefaultLocation call of request r that issues a statement in this
\* step, Null if there is none.
SetDefaultStep(r) ==
    IF dbOps[r] # Null /\ dbOps'[r] = Null /\ dbOps[r].op = "setDefault" THEN dbOps[r]
    ELSE IF dbOps[r] = Null /\ dbOps'[r] # Null /\ dbOps'[r].op = "setDefault" THEN dbOps'[r]
    ELSE Null

\* The rows whose default flag this step changes.
FlagChanged ==
    { id \in LocationIds :
          /\ IsRow(locations[id])
          /\ IsRow(locations'[id])
          /\ locations[id].isDefault # locations'[id].isDefault }

\* C24: whatever the users create, update, mark as default and delete, in
\* whatever order their requests interleave, every user has at most one
\* default location at any time, and a statement of
\* setDefaultLocation(userId, locationId) changes the default flag of rows
\* of userId only.
C24_OneDefaultPerUser ==
    /\ [](\A u \in Users : Cardinality(DefaultsOf(u)) <= 1)
    /\ [][\A r \in Reqs :
              SetDefaultStep(r) # Null =>
                  \A id \in FlagChanged : locations[id].userId = SetDefaultStep(r).userId]_vars

\* A request as the claim wants it for an outbound call.
ValidSend(body) ==
    /\ body.playerId.kind = "string"
    /\ body.playerId.length >= 32
    /\ body.type.kind = "string"
    /\ body.type.text \in {"regular", "wet-snow-warning"}
    /\ body.type.text = "regular" =>
           /\ body.currentLoad.kind = "number"
           /\ body.currentLoad.value >= 0
           /\ body.currentLoad.value <= 500
           /\ body.alertThreshold.kind = "number"
           /\ body.alertThreshold.value >= 50
           /\ body.alertThreshold.value <= 200

Configured == pushEnv.appId /\ pushEnv.apiKey

\* C27: the send handler makes its outbound call only for a request with a
\* player id of 32 characters or more, a type regular or wet-snow-warning
\* and, for regular, a load within 0..500 and an alert threshold within
\* 50..200, and only with both credentials configured; the call is
\* addressed to the player id of the request alone.  Any other request is
\* answered 400, or 503 if it is valid and a credential is missing, without
\* an outbound call.
C27_PushOnlyForValidRequests ==
    pushBody # Null =>
        /\ outbound # Null =>
               /\ ValidSend(pushBody)
               /\ Configured
               /\ outbound.include_player_ids = << pushBody.playerId >>
        /\ (pushPc = "done" /\ ~ValidSend(pushBody)) =>
               pushResponse.status = 400 /\ outbound = Null
        /\ (pushPc = "done" /\ ValidSend(pushBody) /\ ~Configured) =>
               pushResponse.status = 503 /\ outbound = Null

\* A regular alert with a load of 500 and an alert threshold of 50 has
\* been pushed to player-b, and to nobody else.
C27_Witness ==
    /\ pushPc = "done"
    /\ pushResponse.status = 200
    /\ pushBody = NotificationBody(Str(7, "regular"), Num(500), Num(50), Str(36, "player-b"))
    /\ outbound.include_player_ids = << Str(36, "player-b") >>


\* A step in which Home receives snow data.
UpdateStep ==
    \E load \in { CurrentLoad(depth) : depth \in ClientDepths }, warning \in BOOLEAN :
        DataUpdate(SnowData(load, warning))

\* C25: whatever the data updates, the changes of the notification
\* settings and the tab switches, at most one wet-snow-warning notification
\* is sent in a run of consecutive data updates with heavyWetSnowWarning
\* true, and one is sent only on an update with the warning true while the
\* recorded warning state is not true.
C25_OneWarningPerRun ==
    /\ [](warningsInRun <= 1)
    /\ [][ CountType(sent', "wet-snow-warning") > 0 =>
               /\ UpdateStep
               /\ data'.heavyWetSnowWarning
               /\ lastWarningStateRef # "true" ]_vars

\* C26: on a data update with notifications enabled, a load of at least
\* the alert threshold and no wet-snow warning, a regular alert has been
\* sent on this update or earlier in the current run of updates with such
\* a load; and no update sends both a regular alert and a wet-snow warning.
C26_RegularAlertInRun ==
    [][ UpdateStep =>
          /\ ( /\ userData.notificationsEnabled
               /\ data'.currentLoad >= AlertThreshold(userData, Threshold)
               /\ ~data'.heavyWetSnowWarning ) => regularInRun'
          /\ ~( /\ CountType(sent', "regular") > 0
                /\ CountType(sent', "wet-snow-warning") > 0 ) ]_vars

\* C28: every regular alert the client posts to /api/notifications/send
\* passes the checks of the server: its load is within 0..500 and its alert
\* threshold within 50..200.
C28_RegularRequestsPassValidation ==
    \A i \in DOMAIN sent :
        (sent[i].type = "regular" /\ playerId # Null) =>
            SendValidation(PostedBody(sent[i], playerId),
                           [appId |-> TRUE, apiKey |-> TRUE]) = Null

====
